---- MODULE Spec2Model ----
(***************************************************************************)
(* Test topology and run-state reconciliation of the Vitest explorer.      *)
(*                                                                         *)
(* Part 1 (tree model): src/src/discover.ts, discoverTestFromFileContent   *)
(* and the TestFileDiscoverer entry points that call it.                   *)
(* Part 2 (matcher / synchronizer): src/src/watch.ts, TestWatcher.         *)
(***************************************************************************)
EXTENDS Integers, Sequences, FiniteSets, TLC

(***************************************************************************)
(* Bounds of the model.                                                    *)
(***************************************************************************)
\* number of source offsets a file has; offset p is at line p \div LineWidth + 1
MaxPos == 6
\* number of columns of a source line
LineWidth == 2
\* largest number of describe/it blocks in one file
MaxBlocks == 2
\* largest number of edits of a file
MaxEdits == 1

Files == {"file:///f1", "file:///f2"}
\* the file whose content is edited; the other files keep FixedContent
Editable == {"file:///f1"}
Names == {"adds", "math"}
Types == {"describe", "it"}
\* largest number of tasks in the files of one event
MaxTasks == 2
\* largest number of events delivered and requests made in a session
MaxSteps == 3
\* largest number of file changes Vitest tells the VitestWatcher
MaxCalls == 2
\* largest number of calls waiting for astCollect at one time
MaxCollecting == 1
\* the names of runtime tasks: a name of a block, or one rendered with a parameter
RtNames == {"adds", "adds [0]", "adds [1]"}
\* task.result: its state and the error of a failed test (<<>> without one);
\* a task without a result has NoResult
Result(state, error) == [state |-> state, error |-> error]

NoResult == Result("none", <<>>)
\* the results of runtime tests: none yet, passed, or kept out by an `only`
RtResults == {NoResult, Result("pass", <<>>), Result("only", <<>>)}

VARIABLES
    disk,       \* file uri -> content of the file on disk
    items,      \* controller.items: uri -> the file item held for it
    resolved,   \* file uri -> TestFile.resolved
    tree,       \* file uri -> nodes below the file item, in creation order
    idMap,      \* keys of testItemIdMap.get(controller)
    lastArr,    \* file uri -> block list of the last successful apply
    edits,      \* number of times the editable file was edited
    hist,       \* history: the last apply, with the tree it started from
    inbox,      \* events sent by the Vitest process and not handled yet
    state,      \* vitestState.client.state: filesMap and idMap of the StateManager
    run,        \* TestWatcher.run: "none" or "open"
    isRunning,  \* TestWatcher.isRunning
    testStatus, \* TestWatcher.testStatus
    pass,       \* history: what the last handled event did
    vitestState, \* TestWatcher.vitestState: "none", or "loading" or "ready"
    isWatching, \* TestWatcher.isWatching
    openRuns,   \* number of run records created and not ended
    runState,   \* item id -> the states the last run record was told, in order
    steps,      \* number of events delivered and of requests of the user
    watcher,    \* the fields of the VitestWatcher of the worker
    ctx,        \* what the VitestWatcher reads and writes of Vitest
    rerun,      \* history: what the last call of the VitestWatcher did
    start,      \* the start-up handshake with the worker: promise and listeners
    ast,        \* astCollectTests: the code of a file and the file collected from it
    ext,        \* VitestExtension: the api it holds and the api instances created
    client      \* createClient: the socket, the counter of tries and the timer

treeVars == <<disk, items, resolved, tree, idMap, lastArr, edits, hist>>

watchVars == <<inbox, state, run, isRunning, testStatus, pass,
               vitestState, isWatching, openRuns, runState, steps>>

schedVars == <<watcher, ctx, rerun>>

\* the parts that act on their own
partVars == <<ast, ext, client>>

vars == <<treeVars, watchVars, schedVars, start, partVars>>

(***************************************************************************)
(* Strings.                                                                *)
(***************************************************************************)
RECURSIVE TrimLeft(_)
TrimLeft(s) ==
    IF Len(s) > 0 /\ SubSeq(s, 1, 1) = " " THEN TrimLeft(SubSeq(s, 2, Len(s))) ELSE s

RECURSIVE TrimRight(_)
TrimRight(s) ==
    IF Len(s) > 0 /\ SubSeq(s, Len(s), Len(s)) = " "
    THEN TrimRight(SubSeq(s, 1, Len(s) - 1)) ELSE s

\* String.prototype.trim
Trim(s) == TrimRight(TrimLeft(s))

\* Array.prototype.join(' ')
RECURSIVE JoinSpace(_)
JoinSpace(names) ==
    IF Len(names) = 0 THEN ""
    ELSE IF Len(names) = 1 THEN names[1]
    ELSE names[1] \o " " \o JoinSpace(Tail(names))

(***************************************************************************)
(* File contents and the block extractor.                                  *)
(* A content is the set of test/suite calls of the file, each with the     *)
(* offsets of its start and its end, and whether the file parses.          *)
(***************************************************************************)
Position(p) == [line |-> (p \div LineWidth) + 1, column |-> p % LineWidth]

Calls == {c \in [type : Types, name : Names, s : 0..(MaxPos - 1), e : 0..(MaxPos - 1)] :
            c.s < c.e}

\* two calls of one file are nested or disjoint, and share no offset
Compatible(a, b) ==
    /\ {a.s, a.e} \cap {b.s, b.e} = {}
    /\ \/ a.e < b.s
       \/ b.e < a.s
       \/ a.s < b.s /\ b.e < a.e
       \/ b.s < a.s /\ a.e < b.e

RECURSIVE CallSets(_)
CallSets(k) ==
    IF k = 0 THEN {{}}
    ELSE LET smaller == CallSets(k - 1)
         IN  smaller \cup
             {S \cup {c} : <<S, c>> \in
                 {p \in smaller \X Calls : \A d \in p[1] : Compatible(d, p[2])}}

AllCallSets == CallSets(MaxBlocks)

Contents == [ok : BOOLEAN, calls : AllCallSets]

EmptyContent == [ok |-> TRUE, calls |-> {}]

FixedContent == [ok |-> TRUE, calls |-> {[type |-> "it", name |-> "adds", s |-> 0, e |-> 1]}]

\* the calls of a set in source order
RECURSIVE InSourceOrder(_)
InSourceOrder(S) ==
    IF S = {} THEN <<>>
    ELSE LET first == CHOOSE c \in S : \A d \in S : c.s <= d.s
         IN  <<first>> \o InSourceOrder(S \ {first})

ToBlock(c) == [type |-> c.type, name |-> c.name,
               start |-> Position(c.s), end |-> Position(c.e)]

BlocksOf(S) == LET ord == InSourceOrder(S) IN [i \in 1..Len(ord) |-> ToBlock(ord[i])]

\* parse(fileItem.id, content): throws on a source that does not parse; the
\* blocks that are not suites are returned as itBlocks (one whose type is not
\* "it" breaks the contract of the extractor)
parse(content) ==
    [throws |-> ~content.ok,
     describeBlocks |-> BlocksOf({c \in content.calls : c.type = "describe"}),
     itBlocks |-> BlocksOf({c \in content.calls : c.type /= "describe"})]

(***************************************************************************)
(* discoverTestFromFileContent                                             *)
(***************************************************************************)
\* arr.sort((a, b) => a.start.line - b.start.line): stable, by start line only
RECURSIVE SortByLine(_)
SortByLine(arr) ==
    IF Len(arr) = 0 THEN <<>>
    ELSE LET h == Head(arr)
             rest == SortByLine(Tail(arr))
         IN  SelectSeq(rest, LAMBDA b : b.start.line < h.start.line)
             \o <<h>>
             \o SelectSeq(rest, LAMBDA b : b.start.line >= h.start.line)

SortedBlocks(result) == SortByLine(result.describeBlocks \o result.itBlocks)

NoBlock == [type |-> "file", name |-> "",
            start |-> [line |-> 0, column |-> 0], end |-> [line |-> 0, column |-> 0]]

\* getParent: pops the suites that end on or before the line the block starts on
RECURSIVE getParent(_, _)
getParent(ancestors, block) ==
    LET parent == ancestors[Len(ancestors)]
    IN  IF parent.block /= NoBlock /\ block.start.line >= parent.block.end.line
        THEN getParent(SubSeq(ancestors, 1, Len(ancestors) - 1), block)
        ELSE ancestors

\* ancestors.slice(1).map(x => x.block?.name || '').concat([block.name]).join(' ').trim()
FullName(ancestors, block) ==
    Trim(JoinSpace([i \in 1..(Len(ancestors) - 1) |-> ancestors[i + 1].block.name]
                   \o <<block.name>>))

\* mutant: the id counts the test cases only (testCaseIndex instead of index)
MakeId_testCaseIndex(uri, fullName, st, block) ==
    uri \o "/" \o fullName \o "@" \o ToString(st.testCaseIndex)

\* mutant: the id holds the line the block starts on
MakeId_line(uri, fullName, st, block) ==
    uri \o "/" \o fullName \o ":" \o ToString(block.start.line) \o "@" \o ToString(st.index)

\* `${fileItem.uri}/${fullName}@${index++}`
MakeId(uri, fullName, st, block) ==
    uri \o "/" \o fullName \o "@" \o ToString(st.index)

\* one iteration of `for (const block of arr)`
ApplyBlock(uri, st, block) ==
    LET anc == getParent(st.ancestors, block)
        fullName == FullName(anc, block)
        id == MakeId(uri, fullName, st, block)
        node == [id |-> id, label |-> block.name, kind |-> block.type,
                 parent |-> anc[Len(anc)].item,
                 range |-> [start |-> [line |-> block.start.line - 1,
                                       column |-> block.start.column],
                            end |-> [line |-> block.end.line - 1,
                                     column |-> block.end.column]]]
    IN  IF st.thrown THEN st
        ELSE [ancestors |-> IF block.type = "describe"
                            THEN Append(anc, [item |-> id, block |-> block])
                            ELSE anc,
              nodes |-> Append(st.nodes, node),
              created |-> st.created \cup {id},
              index |-> st.index + 1,
              testCaseIndex |-> IF block.type = "it" THEN st.testCaseIndex + 1
                                ELSE st.testCaseIndex,
              thrown |-> block.type \notin {"describe", "it"}]

RECURSIVE ApplyBlocks(_, _, _)
ApplyBlocks(uri, st, arr) ==
    IF Len(arr) = 0 THEN st
    ELSE ApplyBlocks(uri, ApplyBlock(uri, st, Head(arr)), Tail(arr))

BuildTree(uri, arr) ==
    ApplyBlocks(uri,
                [ancestors |-> <<[item |-> uri, block |-> NoBlock]>>,
                 nodes |-> <<>>, created |-> {}, index |-> 0,
                 testCaseIndex |-> 0, thrown |-> FALSE],
                arr)

\* mutant: the new children are added to the old ones
ReplaceChildren_append(old, built) == old \o built

\* top.item.children.replace(top.children)
ReplaceChildren(old, built) == built

\* mutant: a parse error clears the children of the file item
discoverTestFromFileContent_clears(uri, content, oldNodes, oldIdMap) ==
    LET result == parse(content)
        built == BuildTree(uri, SortedBlocks(result))
    IN  IF result.throws
        THEN [nodes |-> <<>>, idMap |-> oldIdMap \cup {uri}, outcome |-> "parse error",
              arr |-> <<>>]
        ELSE [nodes |-> built.nodes, idMap |-> oldIdMap \cup {uri} \cup built.created,
              outcome |-> IF built.thrown THEN "thrown" ELSE "ok",
              arr |-> SortedBlocks(result)]

\* the whole function: the new children of the file item, the new key set of
\* the id map and how the call ended
discoverTestFromFileContent(uri, content, oldNodes, oldIdMap) ==
    LET result == parse(content)
        arr == SortedBlocks(result)
        built == BuildTree(uri, arr)
    IN  IF result.throws
        THEN [nodes |-> oldNodes, idMap |-> oldIdMap \cup {uri}, outcome |-> "parse error",
              arr |-> <<>>]
        ELSE IF built.thrown
        THEN [nodes |-> oldNodes, idMap |-> oldIdMap \cup {uri} \cup built.created,
              outcome |-> "thrown", arr |-> arr]
        ELSE [nodes |-> ReplaceChildren(oldNodes, built.nodes),
              idMap |-> oldIdMap \cup {uri} \cup built.created,
              outcome |-> "ok", arr |-> arr]

(***************************************************************************)
(* TestFileDiscoverer                                                      *)
(***************************************************************************)
\* mutant: a file item is created also for a uri that has one
getOrCreateFile_always(its, uri) ==
    (uri :> (IF uri \in DOMAIN its THEN its[uri] + 1 ELSE 1))
    @@ [u \in DOMAIN its \ {uri} |-> its[u]]

\* getOrCreateFile: the file item controller.items holds for the uri is
\* returned, and one is created when it holds none; an item is named by the
\* number of items created for its uri so far
getOrCreateFile(its, uri) == IF uri \in DOMAIN its THEN its ELSE (uri :> 1) @@ its

\* the controller, the discoverer and the id map, as the functions below change them
Discovered ==
    [items |-> items, resolved |-> resolved, tree |-> tree, idMap |-> idMap,
     lastArr |-> lastArr, hist |-> hist]

\* TestFile.updateFromDisk: reads the file and applies its blocks
updateFromDisk(ds, f) ==
    LET r == discoverTestFromFileContent(f, disk[f], ds.tree[f], ds.idMap)
    IN  [items |-> ds.items,
         resolved |-> [ds.resolved EXCEPT ![f] = (r.outcome /= "thrown") \/ @],
         tree |-> [ds.tree EXCEPT ![f] = r.nodes],
         idMap |-> r.idMap,
         lastArr |-> [ds.lastArr EXCEPT ![f] = IF r.outcome = "ok" THEN r.arr ELSE @],
         hist |-> [file |-> f, outcome |-> r.outcome, before |-> ds.tree,
                   idMapBefore |-> ds.idMap, arrBefore |-> ds.lastArr[f], arr |-> r.arr]]

\* discoverTestFromPath(controller, path, forceReload)
discoverTestFromPath(ds, f, forceReload) ==
    LET ds1 == [ds EXCEPT !.items = getOrCreateFile(@, f)]
    IN  IF ~ds1.resolved[f] \/ forceReload THEN updateFromDisk(ds1, f) ELSE ds1

\* the variables of the tree take the values the functions computed
Becomes(ds) ==
    /\ items' = ds.items
    /\ resolved' = ds.resolved
    /\ tree' = ds.tree
    /\ idMap' = ds.idMap
    /\ lastArr' = ds.lastArr
    /\ hist' = ds.hist

\* the contents one edit away: a call inserted, removed or renamed
Inserted(content) ==
    {[content EXCEPT !.calls = @ \cup {c}] : c \in
        {c \in Calls \ content.calls :
            /\ Cardinality(content.calls) < MaxBlocks
            /\ \A d \in content.calls : Compatible(d, c)}}

Removed(content) == {[content EXCEPT !.calls = @ \ {c}] : c \in content.calls}

Renamed(content) ==
    {[content EXCEPT !.calls = (@ \ {p[1]}) \cup {[p[1] EXCEPT !.name = p[2]]}] :
        p \in {q \in content.calls \X Names : q[1].name /= q[2]}}

\* every call moved by one offset (text inserted or removed above the calls)
Shifted(content) ==
    {[content EXCEPT !.calls = S] : S \in
        {{[c EXCEPT !.s = @ + d, !.e = @ + d] : c \in content.calls} : d \in {-1, 1}}
        \cap (AllCallSets \ {{}})}

\* the user saves the file with a block inserted, removed or renamed, or moved
EditFile(f) ==
    /\ UNCHANGED <<schedVars, start, partVars>>
    /\ f \in Editable
    /\ edits < MaxEdits
    /\ \E c \in Inserted(disk[f]) \cup Removed(disk[f]) \cup Renamed(disk[f])
                \cup Shifted(disk[f]) :
          disk' = [disk EXCEPT ![f] = c]
    /\ edits' = edits + 1
    /\ UNCHANGED <<items, resolved, tree, idMap, lastArr, hist>>
    /\ UNCHANGED watchVars

\* the user saves the file with a syntax error, or without it again
BreakOrFix(f) ==
    /\ UNCHANGED <<schedVars, start, partVars>>
    /\ f \in Editable
    /\ disk' = [disk EXCEPT ![f].ok = ~@]
    /\ UNCHANGED <<items, resolved, tree, idMap, lastArr, edits, hist>>
    /\ UNCHANGED watchVars

\* watcher.onDidChange: a resolved test file is read again (the profile does
\* not run continuously)
OnDidChange(f) ==
    /\ UNCHANGED <<schedVars, start, partVars>>
    /\ LET ds1 == [Discovered EXCEPT !.items = getOrCreateFile(@, f)]
       IN  Becomes(IF ds1.resolved[f] THEN updateFromDisk(ds1, f) ELSE ds1)
    /\ UNCHANGED <<disk, edits>>
    /\ UNCHANGED watchVars

\* watcher.onDidCreate: the file item of a new test file is created
OnDidCreate(f) ==
    /\ UNCHANGED <<schedVars, start, partVars>>
    /\ items' = getOrCreateFile(items, f)
    /\ UNCHANGED <<disk, resolved, tree, idMap, lastArr, edits, hist>>
    /\ UNCHANGED watchVars

\* a caller of discoverTestFromPath: the file is discovered, or read again
DiscoverTestFromPath(f, forceReload) ==
    /\ UNCHANGED <<schedVars, start, partVars>>
    /\ Becomes(discoverTestFromPath(Discovered, f, forceReload))
    /\ UNCHANGED <<disk, edits>>
    /\ UNCHANGED watchVars

NoHist == [file |-> "", outcome |-> "none", before |-> [f \in Files |-> <<>>],
           idMapBefore |-> {}, arrBefore |-> <<>>, arr |-> <<>>]

\* new StateManager(): no file and no task
NoState == [filesMap |-> <<>>, keys |-> <<>>, idMap |-> <<>>, objects |-> <<>>,
            errorsSet |-> {}]

\* the VitestWatcher of the worker and what it reads of Vitest
Undefined == "undefined"

\* Vitest.COLLECT_NAME_PATTERN: the pattern no test name matches
COLLECT_NAME_PATTERN == "collect-only"

\* the fields of a VitestWatcher after construction
NewWatcher ==
    [files |-> <<>>, testNamePattern |-> Undefined, watchEveryFile |-> FALSE,
     rerunTriggered |-> FALSE, enabled |-> FALSE]

\* what the watcher reads of Vitest: the changed tests, the invalidated files,
\* configOverride.testNamePattern, the calls waiting for astCollect, and the
\* number of calls made
NewCtx ==
    [changedTests |-> {}, invalidates |-> {}, testNamePattern |-> Undefined,
     collecting |-> <<>>, calls |-> 0]

\* no file changed yet
NoRerun ==
    [step |-> "none", files |-> <<>>, changedTests |-> {}, isTestFileTrigger |-> FALSE,
     off |-> FALSE, watcher |-> NewWatcher, delegated |-> FALSE, handed |-> <<>>]

\* no worker is being started
NoStart == [fn |-> "none", promise |-> "pending", connected |-> FALSE, open |-> FALSE,
            wsOn |-> {}, wssOn |-> {}, log |-> <<>>]

\* no file was collected from its code
NoAst == [code |-> {}, definitions |-> <<>>, tasks |-> <<>>, collected |-> FALSE]

\* the extension before activate()
NoExt == [api |-> 0, created |-> <<>>, calls |-> <<>>, activated |-> FALSE,
          overlapped |-> FALSE]

\* no client was created
NoClient == [reconnectTries |-> 0, autoReconnect |-> FALSE, sockets |-> <<>>, tries |-> 0,
             timers |-> 0, reconnects |-> 0, last |-> "none", scheduled |-> FALSE]

\* no part has acted
Apart ==
    /\ ast = NoAst
    /\ ext = NoExt
    /\ client = NoClient

\* no file is tracked and no file has changed, and no worker is being started
Idle ==
    /\ watcher = NewWatcher
    /\ ctx = NewCtx
    /\ rerun = NoRerun
    /\ start = NoStart
    /\ Apart

\* no event was handled yet
NoPass == [handler |-> "none", files |-> <<>>, finished |-> FALSE, matches |-> <<>>,
           notes |-> <<>>, synced |-> <<>>, error |-> FALSE, thrown |-> FALSE,
           event |-> <<>>, before |-> <<>>]

TreeInit ==
    /\ Idle
    /\ disk \in {d \in [Files -> Contents] :
                   \A f \in Files : d[f].ok /\ (f \notin Editable => d[f] = FixedContent)}
    /\ items = <<>>
    /\ resolved = [f \in Files |-> FALSE]
    /\ tree = [f \in Files |-> <<>>]
    /\ idMap = {}
    /\ lastArr = [f \in Files |-> <<>>]
    /\ edits = 0
    /\ hist = NoHist
    /\ inbox = <<>>
    /\ state = NoState
    /\ run = "none"
    /\ isRunning = FALSE
    /\ testStatus = [passed |-> 0, failed |-> 0, skipped |-> 0]
    /\ pass = NoPass
    /\ vitestState = "none"
    /\ isWatching = FALSE
    /\ openRuns = 0
    /\ runState = <<>>
    /\ steps = 0

\* every file is discovered and read again, its source broken and repaired
TreeNext ==
    \/ \E f \in Files : BreakOrFix(f)
    \/ \E f \in Files : OnDidChange(f)
    \/ \E f \in Files, forceReload \in BOOLEAN : DiscoverTestFromPath(f, forceReload)

SpecTree == TreeInit /\ [][TreeNext]_vars

\* one file is discovered, edited and read again
EditNext ==
    \/ \E f \in Editable : EditFile(f)
    \/ \E f \in Editable : OnDidChange(f)
    \/ \E f \in Editable, forceReload \in BOOLEAN : DiscoverTestFromPath(f, forceReload)

SpecEdit == TreeInit /\ [][EditNext]_vars

TypeOKTree == DOMAIN items \subseteq Files

(***************************************************************************)
(* Approximate search: new Fuse(list, {keys: ["pattern"]}).search(query),  *)
(* with the options Fuse sets by default.  A candidate matches when the    *)
(* Bitap search finds the query in its name within the threshold; the      *)
(* results are ranked by score, then by position in the list.  Scores are  *)
(* kept as integers, in units of 1 / (10 * length of the query * Distance).*)
(* The names of the model are single words of at most 32 characters, so    *)
(* the field-length norm is 1 and the query is one chunk.                  *)
(***************************************************************************)
\* threshold: 0.6, in tenths
ThresholdTenths == 6
\* distance: 100
Distance == 100
\* location: 0
Location == 0

UpperCase == "ABCDEFGHIJKLMNOPQRSTUVWXYZ"
LowerCase == "abcdefghijklmnopqrstuvwxyz"

\* String.prototype.toLowerCase
RECURSIVE ToLowerCase(_)
ToLowerCase(s) ==
    IF Len(s) = 0 THEN ""
    ELSE LET c == SubSeq(s, 1, 1)
             up == {k \in 1..Len(UpperCase) : SubSeq(UpperCase, k, k) = c}
             lc == IF up = {} THEN c
                   ELSE LET k == CHOOSE k \in up : TRUE IN SubSeq(LowerCase, k, k)
         IN  lc \o ToLowerCase(SubSeq(s, 2, Len(s)))

\* text.charAt(p), p counted from 0
CharAt(text, p) == IF p >= 0 /\ p < Len(text) THEN SubSeq(text, p + 1, p + 1) ELSE ""

\* text.indexOf(pattern, from), -1 when the pattern does not occur
RECURSIVE IndexOf(_, _, _)
IndexOf(text, pattern, from) ==
    IF from + Len(pattern) > Len(text) THEN -1
    ELSE IF SubSeq(text, from + 1, from + Len(pattern)) = pattern THEN from
    ELSE IndexOf(text, pattern, from + 1)

Min(a, b) == IF a <= b THEN a ELSE b

Max(a, b) == IF a >= b THEN a ELSE b

\* computeScore: errors / pattern.length + |expectedLocation - currentLocation| / distance
ComputeScore(pattern, errors, currentLocation) ==
    LET proximity == IF currentLocation >= Location THEN currentLocation - Location
                     ELSE Location - currentLocation
    IN  10 * (errors * Distance + proximity * Len(pattern))

InitialThreshold(pattern) == ThresholdTenths * Len(pattern) * Distance

\* createPatternAlphabet: the bits of a character, bit Len - 1 for the first one
PatternAlphabet(pattern, c) ==
    {Len(pattern) - i - 1 : i \in {k \in 0..(Len(pattern) - 1) : CharAt(pattern, k) = c}}

\* (bits << 1) | 1, as far as the mask of the pattern reads it
ShiftOr1(pattern, bits) == {b + 1 : b \in {x \in bits : x + 1 < Len(pattern)}} \cup {0}

\* bitArr[j], the empty set where the array holds nothing
BitsAt(bitArr, j) == IF j \in DOMAIN bitArr THEN bitArr[j] ELSE {}

\* the exact occurrences of the pattern lower the threshold before the search
RECURSIVE ExactOccurrences(_, _, _, _)
ExactOccurrences(pattern, text, bestLocation, currentThreshold) ==
    LET index == IndexOf(text, pattern, bestLocation)
    IN  IF index = -1 THEN currentThreshold
        ELSE ExactOccurrences(pattern, text, index + Len(pattern),
                              Min(ComputeScore(pattern, 0, index), currentThreshold))

\* the binary search for how far from the expected location a match may lie
RECURSIVE BinarySearch(_, _, _, _, _, _)
BinarySearch(pattern, errors, currentThreshold, binMin, binMid, binMax) ==
    IF binMin < binMid
    THEN LET within == ComputeScore(pattern, errors, Location + binMid) <= currentThreshold
             newMin == IF within THEN binMid ELSE binMin
             newMax == IF within THEN binMax ELSE binMid
         IN  BinarySearch(pattern, errors, currentThreshold, newMin,
                          ((newMax - newMin) \div 2) + newMin, newMax)
    ELSE binMid

\* bitArr[j] = ((bitArr[j + 1] << 1) | 1) & charMatch, and with errors
\* |= ((lastBitArr[j + 1] | lastBitArr[j]) << 1) | 1 | lastBitArr[j + 1]
Bits(pattern, text, errors, lastBitArr, j, bitArr) ==
    (ShiftOr1(pattern, BitsAt(bitArr, j + 1))
        \cap PatternAlphabet(pattern, CharAt(text, j - 1)))
    \cup (IF errors = 0 THEN {}
          ELSE ShiftOr1(pattern, BitsAt(lastBitArr, j + 1) \cup BitsAt(lastBitArr, j))
               \cup BitsAt(lastBitArr, j + 1))

\* bitArr[j] = bits
StoreBits(s, j, bits) ==
    [s EXCEPT !.bitArr = [k \in DOMAIN s.bitArr \cup {j} |->
                             IF k = j THEN bits ELSE s.bitArr[k]]]

RECURSIVE ScanText(_, _, _, _, _, _)
\* if (bitArr[j] & mask): the score of a match that ends here; a score within
\* the threshold lowers it, and ends the scan at the expected location
ScanHit(pattern, text, errors, lastBitArr, j, s, score) ==
    IF score <= s.currentThreshold
    THEN IF j - 1 <= Location
         THEN [s EXCEPT !.finalScore = score, !.currentThreshold = score,
                        !.bestLocation = j - 1]
         ELSE ScanText(pattern, text, errors, lastBitArr, j - 1,
                       [s EXCEPT !.finalScore = score, !.currentThreshold = score,
                                 !.bestLocation = j - 1,
                                 !.start = Max(1, 2 * Location - (j - 1))])
    ELSE ScanText(pattern, text, errors, lastBitArr, j - 1,
                  [s EXCEPT !.finalScore = score])

\* one round of the loop over the text
ScanStep(pattern, text, errors, lastBitArr, j, s, bits) ==
    IF (Len(pattern) - 1) \in bits
    THEN ScanHit(pattern, text, errors, lastBitArr, j, StoreBits(s, j, bits),
                 ComputeScore(pattern, errors, j - 1))
    ELSE ScanText(pattern, text, errors, lastBitArr, j - 1, StoreBits(s, j, bits))

\* for (let j = finish; j >= start; j -= 1)
ScanText(pattern, text, errors, lastBitArr, j, s) ==
    IF j < s.start THEN s
    ELSE ScanStep(pattern, text, errors, lastBitArr, j, s,
                  Bits(pattern, text, errors, lastBitArr, j, s.bitArr))

RECURSIVE SearchLevels(_, _, _, _, _, _)
\* the end of a round: no further round when one more error is past the threshold
NextLevel(pattern, text, i, binMid, s) ==
    IF ComputeScore(pattern, i + 1, Location) > s.currentThreshold THEN s
    ELSE SearchLevels(pattern, text, i + 1, s.bitArr, binMid, s)

\* a round with i errors allowed, over the part of the text the binary search left
SearchLevel(pattern, text, i, lastBitArr, binMid, s) ==
    NextLevel(pattern, text, i, binMid,
              ScanText(pattern, text, i, lastBitArr,
                       Min(Location + binMid, Len(text)) + Len(pattern),
                       [s EXCEPT !.start = Max(1, Location - binMid + 1),
                                 !.bitArr = [k \in {Min(Location + binMid, Len(text))
                                                    + Len(pattern) + 1} |-> 0..(i - 1)]]))

\* for (let i = 0; i < patternLen; i += 1): one more error allowed each time
SearchLevels(pattern, text, i, lastBitArr, binMax, s) ==
    IF i >= Len(pattern) THEN s
    ELSE SearchLevel(pattern, text, i, lastBitArr,
                     BinarySearch(pattern, i, s.currentThreshold, 0, binMax, binMax), s)

\* { isMatch: bestLocation >= 0, score: Math.max(0.001, finalScore) }
BitapResult(pattern, s) ==
    [isMatch |-> s.bestLocation >= 0,
     score |-> Max((Len(pattern) * Distance) \div 100, s.finalScore)]

\* search(text, pattern): the Bitap search of one chunk
BitapSearch(pattern, text) ==
    BitapResult(pattern,
        SearchLevels(pattern, text, 0, <<>>, Len(pattern) + Len(text),
                     [currentThreshold |-> ExactOccurrences(pattern, text, Location,
                                                            InitialThreshold(pattern)),
                      bestLocation |-> -1,
                      finalScore |-> 10 * Len(pattern) * Distance,
                      start |-> 1,
                      bitArr |-> <<>>]))

\* searchIn of lowered strings: equal strings match with score 0
SearchLowered(pattern, text) ==
    IF pattern = text THEN [isMatch |-> TRUE, score |-> 0]
    ELSE BitapSearch(pattern, text)

\* BitapSearch.searchIn(text)
SearchIn(query, text) == SearchLowered(ToLowerCase(query), ToLowerCase(text))

\* the score of every name a task is looked up by against every name of a node
FuseScores == [query \in RtNames |-> [text \in Names |-> SearchIn(query, text)]]

\* TestCase.pattern, TestDescribe.pattern: the display name of the block
pattern(node) == node.label

\* results.sort: by score, then by position in the list; the position of the
\* first result, 0 when there is none
TopRanked(result) ==
    IF \A i \in 1..Len(result) : ~result[i].isMatch THEN 0
    ELSE CHOOSE i \in 1..Len(result) :
            /\ result[i].isMatch
            /\ \A j \in 1..Len(result) :
                  result[j].isMatch =>
                      \/ result[i].score < result[j].score
                      \/ result[i].score = result[j].score /\ i <= j

\* new Fuse(list, {keys: ["pattern"]}).search(query)[0]: the position in the
\* list of the best match, 0 when nothing matches
FuseSearch(list, query) ==
    TopRanked([i \in 1..Len(list) |-> FuseScores[query][list[i]]])

(***************************************************************************)
(* Runtime tasks and the events of the Vitest process.                     *)
(***************************************************************************)
\* a test of a runtime file
TestTasks == [type : {"test"}, name : RtNames, result : RtResults, tasks : {<<>>}]

\* the task lists with n tasks in all, and the tasks with n tasks in all
RECURSIVE TaskListsOfSize(_), TasksOfSize(_)
TaskListsOfSize(n) ==
    IF n = 0 THEN {<<>>}
    ELSE UNION {{<<p[1]>> \o p[2] : p \in TasksOfSize(k) \X TaskListsOfSize(n - k)} :
                   k \in 1..n}

TasksOfSize(n) ==
    (IF n = 1 THEN TestTasks ELSE {})
    \cup [type : {"suite"}, name : RtNames, result : {NoResult},
          tasks : TaskListsOfSize(n - 1)]

TaskLists(n) == UNION {TaskListsOfSize(k) : k \in 0..n}

\* the runtime file of a file that is not edited: its one test passed
FixedFile(path) ==
    [filepath |-> path,
     tasks |-> <<[type |-> "test", name |-> "adds", result |-> Result("pass", <<>>),
                 tasks |-> <<>>]>>]

\* the file lists of an event: the edited file alone, or with the other file
\* before or after it, MaxTasks tasks in all
FileLists ==
    {<<[filepath |-> "/f1", tasks |-> t]>> : t \in TaskLists(MaxTasks)}
    \cup UNION {{<<[filepath |-> "/f1", tasks |-> t], FixedFile("/f2")>>,
                 <<FixedFile("/f2"), [filepath |-> "/f1", tasks |-> t]>>} :
                    t \in TaskLists(MaxTasks - 1)}

\* the events that end a run: onFinished(files), or onFinished() without files
FinishedEvents ==
    {[type |-> "finished", defined |-> TRUE, files |-> files] : files \in FileLists}
    \cup {[type |-> "finished", defined |-> FALSE, files |-> <<>>]}

\* vscode.Uri.file(path).toString()
UriFile(path) == "file://" \o path

(***************************************************************************)
(* StateManager                                                            *)
(***************************************************************************)
\* the id of the k-th task of the task with the given id
TaskId(parent, k) == parent \o "_" \o ToString(k)

\* the file of an event as a task: the file is the suite of its tasks
FileTask(file) == [type |-> "suite", result |-> NoResult, tasks |-> file.tasks]

\* the results the tasks of an event carry, by id
RECURSIVE Carried(_, _, _), CarriedBelow(_, _, _, _)
Carried(map, id, task) ==
    IF task.type = "suite"
    THEN CarriedBelow((id :> task.result) @@ map, id, task.tasks, 1)
    ELSE (id :> task.result) @@ map

CarriedBelow(map, parent, tasks, k) ==
    IF k > Len(tasks) THEN map
    ELSE CarriedBelow(Carried(map, TaskId(parent, k), tasks[k]), parent, tasks, k + 1)

\* a file object of an event: the file as it was sent, and the result each
\* of its task objects has now
FileObject(file) ==
    [file |-> file, results |-> Carried(<<>>, file.filepath, FileTask(file)),
     logs |-> [id \in DOMAIN Carried(<<>>, file.filepath, FileTask(file)) |-> 0]]

\* updateId(task): an entry of the map is a task object, named by its file
\* object and its id; a task that is the object the map holds under its id
\* is left, and the tasks below it are not visited
RECURSIVE updateId(_, _, _, _), updateIds(_, _, _, _, _)
updateId(map, id, task, object) ==
    LET set == (id :> [type |-> task.type, file |-> object])
               @@ [k \in DOMAIN map \ {id} |-> map[k]]
    IN  IF id \in DOMAIN map /\ map[id] = [type |-> task.type, file |-> object] THEN map
        ELSE IF task.type = "suite" THEN updateIds(set, id, task.tasks, 1, object)
        ELSE set

updateIds(map, parent, tasks, k, object) ==
    IF k > Len(tasks) THEN map
    ELSE updateIds(updateId(map, TaskId(parent, k), tasks[k], object),
                   parent, tasks, k + 1, object)

\* the body of the loop of collectFiles, for a file object the heap holds:
\* filesMap.set and updateId
collectObject(st, object) ==
    [filesMap |-> (st.objects[object].file.filepath :> object)
                  @@ [p \in DOMAIN st.filesMap \ {st.objects[object].file.filepath} |->
                         st.filesMap[p]],
     keys |-> IF st.objects[object].file.filepath \in DOMAIN st.filesMap THEN st.keys
              ELSE Append(st.keys, st.objects[object].file.filepath),
     idMap |-> updateId(st.idMap, st.objects[object].file.filepath,
                        FileTask(st.objects[object].file), object),
     objects |-> st.objects,
     errorsSet |-> st.errorsSet]

\* the body of the loop for a file of an event, which is a new object
collectFile(st, file, object) ==
    collectObject([st EXCEPT !.objects = Append(@, FileObject(file))], object)

\* collectFiles(files)
RECURSIVE collectFiles(_, _)
collectFiles(st, files) ==
    IF Len(files) = 0 THEN st
    ELSE collectFiles(collectFile(st, Head(files), Len(st.objects) + 1), Tail(files))

\* idMap.get(id).result
ResultOf(st, id) == st.objects[st.idMap[id].file].results[id]

\* updateStatus: the tests of the id map by their result
updateStatus(st) ==
    LET tests == {id \in DOMAIN st.idMap : st.idMap[id].type = "test"}
    IN  [passed |-> Cardinality({id \in tests : ResultOf(st, id).state = "pass"}),
         failed |-> Cardinality({id \in tests : ResultOf(st, id).state = "fail"}),
         skipped |-> Cardinality({id \in tests : ResultOf(st, id) = NoResult})]

\* getFiles(): the file objects of filesMap, in the order of its keys
getFiles(st) == [i \in 1..Len(st.keys) |-> st.filesMap[st.keys[i]]]

RECURSIVE updateTasks(_, _), updateTasks_merges(_, _), updateTasks_keepsUnknown(_, _)
\* mutant: the result of a task that is not known is kept aside
updateTasks_keepsUnknown(st, packs) ==
    IF Len(packs) = 0 THEN st
    ELSE updateTasks_keepsUnknown(
             IF Head(packs).id \in DOMAIN st.idMap
             THEN [st EXCEPT !.objects[st.idMap[Head(packs).id].file].results[Head(packs).id] =
                      Head(packs).result]
             ELSE [st EXCEPT !.errorsSet = @ \cup {Head(packs)}],
             Tail(packs))

\* mutant: a later result keeps the error of the result it replaces
updateTasks_merges(st, packs) ==
    IF Len(packs) = 0 THEN st
    ELSE updateTasks_merges(
             IF Head(packs).id \in DOMAIN st.idMap
             THEN [st EXCEPT !.objects[st.idMap[Head(packs).id].file].results[Head(packs).id] =
                      [state |-> Head(packs).result.state,
                       error |-> IF Head(packs).result.error = <<>> THEN @.error
                                 ELSE Head(packs).result.error]]
             ELSE st,
             Tail(packs))

\* updateTasks(packs): the result of each known task is replaced
updateTasks(st, packs) ==
    IF Len(packs) = 0 THEN st
    ELSE updateTasks(
             IF Head(packs).id \in DOMAIN st.idMap
             THEN [st EXCEPT !.objects[st.idMap[Head(packs).id].file].results[Head(packs).id] =
                      Head(packs).result]
             ELSE st,
             Tail(packs))

\* updateUserLog(log): the log is pushed to the logs of its task, when known
updateUserLog(st, log) ==
    IF log.taskId \in DOMAIN st.idMap
    THEN [st EXCEPT !.objects[st.idMap[log.taskId].file].logs[log.taskId] = @ + 1]
    ELSE st

\* the tasks of a file object with the results they have now
RECURSIVE WithResults(_, _, _)
WithResults(tasks, parent, results) ==
    [k \in 1..Len(tasks) |->
        [tasks[k] EXCEPT !.result = results[TaskId(parent, k)],
                         !.tasks = WithResults(@, TaskId(parent, k), results)]]

\* a file object as it is read now
FileNow(st, object) ==
    [filepath |-> st.objects[object].file.filepath,
     tasks |-> WithResults(st.objects[object].file.tasks,
                           st.objects[object].file.filepath,
                           st.objects[object].results)]

FilesNow(st, objects) == [i \in 1..Len(objects) |-> FileNow(st, objects[i])]

\* delete f.result; getTasks(f).forEach((i) => delete i.result), for each file
RECURSIVE deleteResults(_, _)
deleteResults(st, objects) ==
    IF Len(objects) = 0 THEN st
    ELSE deleteResults([st EXCEPT !.objects[Head(objects)].results =
                                      [id \in DOMAIN @ |-> NoResult]],
                       Tail(objects))

(***************************************************************************)
(* TestWatcher: matchTask, sync, syncTestStatusToVsCode, onUpdated         *)
(***************************************************************************)
\* mutant: every node of the file is a candidate of every level
Children_wholeFile(nodes, parent) == [i \in 1..Len(nodes) |-> i]

\* the children of a file item or of a suite, as positions in the node list
Children(nodes, parent) ==
    LET at == {i \in 1..Len(nodes) : nodes[i].parent = parent}
    IN  SelectSeq([i \in 1..Len(nodes) |-> i], LAMBDA i : i \in at)

\* candidate instanceof TestDescribe for a suite, TestCase for a test
KindMatches(type, node) ==
    /\ type = "suite" => node.kind = "describe"
    /\ type = "test" => node.kind = "it"

\* the positions in the candidates of those the first loop of matchTask accepts
ExactCandidates(nodes, task, candidates, type) ==
    {i \in 1..Len(candidates) :
        /\ KindMatches(type, nodes[candidates[i]])
        /\ pattern(nodes[candidates[i]]) = task.name}

\* the candidates without the one at position i
Delete(candidates, i) == SubSeq(candidates, 1, i - 1) \o SubSeq(candidates, i + 1, Len(candidates))

\* mutant: the approximate search runs first, the exact loop when it finds nothing
matchTask_fuzzyFirst(nodes, task, candidates, type) ==
    LET exact == ExactCandidates(nodes, task, candidates, type)
        first == CHOOSE i \in exact : \A j \in exact : i <= j
        top == FuseSearch([i \in 1..Len(candidates) |-> pattern(nodes[candidates[i]])],
                          task.name)
    IN  IF top /= 0
        THEN [ans |-> candidates[top], candidates |-> candidates, phase |-> "fuzzy"]
        ELSE IF exact /= {}
        THEN [ans |-> candidates[first], candidates |-> Delete(candidates, first),
              phase |-> "exact"]
        ELSE [ans |-> 0, candidates |-> candidates, phase |-> "none"]

\* mutant: the exact loop leaves the node it found among the candidates
matchTask_keeps(nodes, task, candidates, type) ==
    LET exact == ExactCandidates(nodes, task, candidates, type)
        first == CHOOSE i \in exact : \A j \in exact : i <= j
        top == FuseSearch([i \in 1..Len(candidates) |-> pattern(nodes[candidates[i]])],
                          task.name)
    IN  IF exact /= {}
        THEN [ans |-> candidates[first], candidates |-> candidates, phase |-> "exact"]
        ELSE [ans |-> IF top = 0 THEN 0 ELSE candidates[top], candidates |-> candidates,
              phase |-> IF top = 0 THEN "none" ELSE "fuzzy"]

\* mutant: the node the approximate search found is deleted from the candidates
matchTask_deletes(nodes, task, candidates, type) ==
    LET exact == ExactCandidates(nodes, task, candidates, type)
        first == CHOOSE i \in exact : \A j \in exact : i <= j
        top == FuseSearch([i \in 1..Len(candidates) |-> pattern(nodes[candidates[i]])],
                          task.name)
    IN  IF exact /= {}
        THEN [ans |-> candidates[first], candidates |-> Delete(candidates, first),
              phase |-> "exact"]
        ELSE [ans |-> IF top = 0 THEN 0 ELSE candidates[top],
              candidates |-> IF top = 0 THEN candidates ELSE Delete(candidates, top),
              phase |-> IF top = 0 THEN "none" ELSE "fuzzy"]

\* mutant: no approximate search, a task without a candidate of its name gets none
matchTask_exactOnly(nodes, task, candidates, type) ==
    LET exact == ExactCandidates(nodes, task, candidates, type)
        first == CHOOSE i \in exact : \A j \in exact : i <= j
    IN  IF exact /= {}
        THEN [ans |-> candidates[first], candidates |-> Delete(candidates, first),
              phase |-> "exact"]
        ELSE [ans |-> 0, candidates |-> candidates, phase |-> "none"]

\* mutant: the exact loop goes on to the last candidate of the name
Found_last(candidates, exact, top) ==
    IF exact /= {}
    THEN [ans |-> candidates[CHOOSE i \in exact : \A j \in exact : i >= j],
          candidates |-> Delete(candidates, CHOOSE i \in exact : \A j \in exact : i >= j),
          phase |-> "exact"]
    ELSE [ans |-> IF top = 0 THEN 0 ELSE candidates[top], candidates |-> candidates,
          phase |-> IF top = 0 THEN "none" ELSE "fuzzy"]

\* what matchTask returns, given what its exact loop accepts and what the
\* approximate search finds
Found(candidates, exact, top) ==
    IF exact /= {}
    THEN [ans |-> candidates[CHOOSE i \in exact : \A j \in exact : i <= j],
          candidates |-> Delete(candidates, CHOOSE i \in exact : \A j \in exact : i <= j),
          phase |-> "exact"]
    ELSE [ans |-> IF top = 0 THEN 0 ELSE candidates[top], candidates |-> candidates,
          phase |-> IF top = 0 THEN "none" ELSE "fuzzy"]

\* matchTask(task, candidates, type): the node found (0 for undefined), the
\* candidates left, and the loop that found the node
matchTask(nodes, task, candidates, type) ==
    Found(candidates,
          ExactCandidates(nodes, task, candidates, type),
          FuseSearch([i \in 1..Len(candidates) |-> pattern(nodes[candidates[i]])],
                     task.name))

\* mutant: a test without a result is skipped also while the run is in progress
Transition_skipsInProgress(result, finished) ==
    CASE result = NoResult -> "skipped"
      [] result.state = "pass" -> "passed"
      [] result.state = "fail" -> "failed"
      [] result.state \in {"skip", "todo"} -> "skipped"
      [] result.state = "run" -> "started"
      [] OTHER -> "none"

\* the notification a test with this result asks for, "none" when the item
\* of the node is not read
Transition(result, finished) ==
    CASE result = NoResult -> IF finished THEN "skipped" ELSE "none"
      [] result.state = "pass" -> "passed"
      [] result.state = "fail" -> "failed"
      [] result.state \in {"skip", "todo"} -> "skipped"
      [] result.state = "run" -> "started"
      [] OTHER -> "none"

\* new TestMessage(task.result.error?.message ?? ""), for a failed test
Message(result) ==
    IF result.state /= "fail" THEN "" ELSE IF result.error = <<>> THEN "" ELSE result.error[1]

\* what the history keeps of a call of matchTask
Matched(uri, call, k, task, candidates, m) ==
    [file |-> uri, call |-> call, task |-> Append(call, k),
     type |-> task.type, name |-> task.name,
     pool |-> candidates, left |-> m.candidates, ans |-> m.ans, phase |-> m.phase]

RECURSIVE sync(_, _, _, _, _, _, _, _)
\* the body of the loop of sync after matchTask: reading a property of the
\* undefined node of an unmatched task throws
syncTask(uri, nodes, task, path, finished, acc, ans) ==
    IF task.type = "test"
    THEN IF Transition(task.result, finished) = "none" THEN acc
         ELSE IF ans = 0 THEN [acc EXCEPT !.error = TRUE]
         ELSE [acc EXCEPT !.notes = Append(@,
                   [kind |-> Transition(task.result, finished), item |-> nodes[ans].id,
                    message |-> Message(task.result), file |-> uri, task |-> path])]
    ELSE IF ans = 0 THEN [acc EXCEPT !.error = TRUE]
         ELSE sync(uri, nodes,
                   IF nodes[ans].kind = "describe" THEN Children(nodes, nodes[ans].id)
                   ELSE <<>>,
                   task.tasks, 1, path, finished, acc)

\* one round of the loop of sync, and the rounds after it
syncNext(uri, nodes, candidates, tasks, k, call, finished, acc, m) ==
    sync(uri, nodes, m.candidates, tasks, k + 1, call, finished,
         syncTask(uri, nodes, tasks[k], Append(call, k), finished,
                  [acc EXCEPT !.matches =
                      Append(@, Matched(uri, call, k, tasks[k], candidates, m))],
                  m.ans))

\* sync(run, vscode, vitest) from task k on; nothing more is done after a throw
sync(uri, nodes, candidates, tasks, k, call, finished, acc) ==
    IF acc.error \/ k > Len(tasks) THEN acc
    ELSE syncNext(uri, nodes, candidates, tasks, k, call, finished, acc,
                  matchTask(nodes, tasks[k], candidates, tasks[k].type))

\* the file is among the synchronized ones when sync did not throw
Synced(uri, done) == IF done.error THEN done ELSE [done EXCEPT !.synced = Append(@, uri)]

\* syncTestStatusToVsCode(vscodeFile, vitestFile, finished)
syncTestStatusToVsCode(uri, nodes, file, finished, acc) ==
    Synced(uri, sync(uri, nodes, Children(nodes, uri), file.tasks, 1, <<>>, finished, acc))

RECURSIVE onUpdated(_, _, _, _)
\* the body of the loop of onUpdated, after the file was read again
onUpdatedFile(ds, files, finished, acc) ==
    onUpdated(ds, Tail(files), finished,
              syncTestStatusToVsCode(UriFile(Head(files).filepath),
                                     ds.tree[UriFile(Head(files).filepath)],
                                     Head(files), finished, acc))

\* the loop of onUpdated: every file is read again and synchronized
onUpdated(ds, files, finished, acc) ==
    IF Len(files) = 0 \/ acc.error THEN [ds |-> ds, acc |-> acc]
    ELSE onUpdatedFile(discoverTestFromPath(ds, UriFile(Head(files).filepath), TRUE),
                       files, finished, acc)

\* nothing matched and nothing notified yet
NoAcc == [matches |-> <<>>, notes |-> <<>>, synced |-> <<>>, error |-> FALSE]

\* what the history keeps of the state a handler started from
Before ==
    [handler |-> pass.handler, event |-> pass.event, run |-> run, openRuns |-> openRuns,
     runState |-> runState, state |-> state, isWatching |-> isWatching,
     vitestState |-> vitestState]

\* mutant: a run record is created also when one is open
createTestRun_always(r, records) == records + 1

\* if (!this.run) this.run = this.ctrl.createTestRun(...): the number of open
\* run records after it
createTestRun(r, records) == IF r = "none" THEN records + 1 ELSE records

\* the states of the items after a run record was told the notes
RECURSIVE Told(_, _)
Told(notes, states) ==
    IF Len(notes) = 0 THEN states
    ELSE Told(Tail(notes),
              (Head(notes).item :>
                  Append(IF Head(notes).item \in DOMAIN states
                         THEN states[Head(notes).item] ELSE <<>>,
                         Head(notes).kind))
              @@ states)

\* the states of the items of the run record the handler writes to: a new
\* record has told nothing yet
RunStateOf(r) == IF r = "none" THEN <<>> ELSE runState

\* the end of onFinished: on an error the run is not ended
Finished(event, r) ==
    /\ Becomes(r.ds)
    /\ pass' = [handler |-> "onFinished", files |-> event.files, finished |-> TRUE,
                matches |-> r.acc.matches, notes |-> r.acc.notes,
                synced |-> r.acc.synced, error |-> r.acc.error, thrown |-> FALSE,
                event |-> event, before |-> Before]
    /\ runState' = Told(r.acc.notes, RunStateOf(run))
    /\ IF r.acc.error
       THEN /\ run' = "open"
            /\ openRuns' = createTestRun(run, openRuns)
            /\ UNCHANGED testStatus
       ELSE /\ run' = "none"
            /\ openRuns' = createTestRun(run, openRuns) - 1
            /\ testStatus' = updateStatus(state)

\* handlers.onFinished(files): on an error the run is not ended
OnFinished ==
    /\ UNCHANGED <<schedVars, start, partVars>>
    /\ Len(inbox) > 0
    /\ Head(inbox).type = "finished"
    /\ vitestState /= "none"
    /\ inbox' = Tail(inbox)
    /\ isRunning' = FALSE
    /\ UNCHANGED <<disk, edits, state, vitestState, isWatching, steps>>
    /\ IF ~Head(inbox).defined
       THEN /\ UNCHANGED <<items, resolved, tree, idMap, lastArr, hist, runState>>
            /\ pass' = [NoPass EXCEPT !.handler = "onFinished", !.finished = TRUE,
                                      !.event = Head(inbox), !.before = Before]
            /\ IF run = "none" THEN UNCHANGED <<run, testStatus, openRuns>>
               ELSE /\ run' = "none"
                    /\ openRuns' = openRuns - 1
                    /\ testStatus' = updateStatus(state)
       ELSE Finished(Head(inbox), onUpdated(Discovered, Head(inbox).files, TRUE, NoAcc))

\* fileSet: the files of the known tasks of the packs, in the order of the packs
RECURSIVE fileSet(_, _, _)
fileSet(st, packs, seen) ==
    IF Len(packs) = 0 THEN seen
    ELSE fileSet(st, Tail(packs),
                 IF /\ Head(packs).id \in DOMAIN st.idMap
                    /\ \A i \in 1..Len(seen) : seen[i] /= st.idMap[Head(packs).id].file
                 THEN Append(seen, st.idMap[Head(packs).id].file)
                 ELSE seen)

\* mutant: without an open run a taskUpdate is not synchronized
TaskUpdated_needsRun(event, files, r) ==
    IF run = "none"
    THEN /\ pass' = [NoPass EXCEPT !.handler = "onTaskUpdate", !.event = event,
                                   !.before = Before]
         /\ UNCHANGED <<items, resolved, tree, idMap, lastArr, hist>>
         /\ UNCHANGED <<run, openRuns, runState>>
    ELSE /\ Becomes(r.ds)
         /\ pass' = [handler |-> "onTaskUpdate", files |-> files, finished |-> FALSE,
                     matches |-> r.acc.matches, notes |-> r.acc.notes,
                     synced |-> r.acc.synced, error |-> r.acc.error, thrown |-> FALSE,
                     event |-> event, before |-> Before]
         /\ runState' = Told(r.acc.notes, runState)
         /\ UNCHANGED <<run, openRuns>>

\* the end of onTaskUpdate: the run stays open
TaskUpdated(event, files, r) ==
    /\ Becomes(r.ds)
    /\ pass' = [handler |-> "onTaskUpdate", files |-> files, finished |-> FALSE,
                matches |-> r.acc.matches, notes |-> r.acc.notes,
                synced |-> r.acc.synced, error |-> r.acc.error, thrown |-> FALSE,
                event |-> event, before |-> Before]
    /\ runState' = Told(r.acc.notes, RunStateOf(run))
    /\ run' = "open"
    /\ openRuns' = createTestRun(run, openRuns)

\* handlers.onTaskUpdate(packs), with the files of the tasks as they are now
onTaskUpdate(event, files) ==
    TaskUpdated(event, files, onUpdated(Discovered, files, FALSE, NoAcc))

\* rpc.onTaskUpdate(packs): the state manager takes the results, then the
\* handler of the watcher synchronizes the files; packs that cannot be
\* iterated throw in the state manager
OnTaskUpdate ==
    /\ UNCHANGED <<schedVars, start, partVars>>
    /\ Len(inbox) > 0
    /\ Head(inbox).type = "taskUpdate"
    /\ vitestState /= "none"
    /\ inbox' = Tail(inbox)
    /\ UNCHANGED <<disk, edits, testStatus, vitestState, isWatching, steps>>
    /\ IF Head(inbox).malformed
       THEN /\ pass' = [NoPass EXCEPT !.handler = "onTaskUpdate", !.thrown = TRUE,
                                      !.event = Head(inbox), !.before = Before]
            /\ UNCHANGED <<items, resolved, tree, idMap, lastArr, hist>>
            /\ UNCHANGED <<state, run, isRunning, openRuns, runState>>
       ELSE /\ state' = updateTasks(state, Head(inbox).packs)
            /\ isRunning' = TRUE
            /\ onTaskUpdate(Head(inbox),
                            FilesNow(updateTasks(state, Head(inbox).packs),
                                     fileSet(updateTasks(state, Head(inbox).packs),
                                             Head(inbox).packs, <<>>)))

\* onFileUpdated(files): every file is discovered, a resolved one is not read again
RECURSIVE onFileUpdated(_, _)
onFileUpdated(ds, files) ==
    IF Len(files) = 0 THEN ds
    ELSE onFileUpdated(discoverTestFromPath(ds, UriFile(Head(files).filepath), FALSE),
                       Tail(files))

\* rpc.onCollected(files): the state manager takes the files, and the effect
\* on the files of the client discovers them; files that are no list throw
OnCollected ==
    /\ UNCHANGED <<schedVars, start, partVars>>
    /\ Len(inbox) > 0
    /\ Head(inbox).type = "collected"
    /\ vitestState /= "none"
    /\ inbox' = Tail(inbox)
    /\ UNCHANGED <<disk, edits, run, isRunning, testStatus, vitestState, isWatching,
                   openRuns, runState, steps>>
    /\ IF Head(inbox).malformed
       THEN /\ pass' = [NoPass EXCEPT !.handler = "onCollected", !.thrown = TRUE,
                                      !.event = Head(inbox), !.before = Before]
            /\ UNCHANGED <<items, resolved, tree, idMap, lastArr, hist, state>>
       ELSE /\ state' = collectFiles(state, Head(inbox).files)
            /\ pass' = [NoPass EXCEPT !.handler = "onCollected",
                                      !.event = Head(inbox), !.before = Before]
            /\ Becomes(onFileUpdated(Discovered,
                                     FilesNow(collectFiles(state, Head(inbox).files),
                                              getFiles(collectFiles(state,
                                                                    Head(inbox).files)))))

\* rpc.onUserConsoleLog(log): a log that is no object throws
OnUserConsoleLog ==
    /\ UNCHANGED <<schedVars, start, partVars>>
    /\ Len(inbox) > 0
    /\ Head(inbox).type = "consoleLog"
    /\ vitestState /= "none"
    /\ inbox' = Tail(inbox)
    /\ UNCHANGED <<disk, edits, run, isRunning, testStatus, vitestState, isWatching,
                   openRuns, runState, steps>>
    /\ UNCHANGED <<items, resolved, tree, idMap, lastArr, hist>>
    /\ IF Head(inbox).malformed
       THEN /\ pass' = [NoPass EXCEPT !.handler = "onUserConsoleLog", !.thrown = TRUE,
                                      !.event = Head(inbox), !.before = Before]
            /\ UNCHANGED state
       ELSE /\ state' = updateUserLog(state, Head(inbox).log)
            /\ pass' = [NoPass EXCEPT !.handler = "onUserConsoleLog",
                                      !.event = Head(inbox), !.before = Before]

\* started(item): the item and the items below it, the children of an item
\* in their order
RECURSIVE started(_, _, _, _)
started(uri, nodes, ids, notes) ==
    IF Len(ids) = 0 THEN notes
    ELSE started(uri, nodes,
                 [i \in 1..Len(Children(nodes, Head(ids))) |->
                     nodes[Children(nodes, Head(ids))[i]].id] \o Tail(ids),
                 Append(notes, [kind |-> "started", item |-> Head(ids), message |-> "",
                                file |-> uri, task |-> <<0>>]))

\* the loop of runFiles: every file is discovered and its items are started
RECURSIVE runFiles(_, _, _)
runFilesStarted(ds, files, notes) ==
    runFiles(ds, Tail(files),
             started(UriFile(Head(files).filepath), ds.tree[UriFile(Head(files).filepath)],
                     <<UriFile(Head(files).filepath)>>, notes))

runFiles(ds, files, notes) ==
    IF Len(files) = 0 THEN [ds |-> ds, notes |-> notes]
    ELSE runFilesStarted(discoverTestFromPath(ds, UriFile(Head(files).filepath), FALSE),
                         files, notes)

\* the files of runTests(tests): those of the client that hold a test of the
\* request, all of them without a list of tests
Requested(st, paths) ==
    SelectSeq(getFiles(st), LAMBDA object : st.objects[object].file.filepath \in paths)

\* the end of runFiles: the results of the files are deleted
Requests(objects, r) ==
    /\ Becomes(r.ds)
    /\ pass' = [NoPass EXCEPT !.handler = "runTests", !.notes = r.notes,
                              !.files = FilesNow(state, objects), !.before = Before]
    /\ runState' = Told(r.notes, RunStateOf(run))
    /\ run' = "open"
    /\ openRuns' = createTestRun(run, openRuns)
    /\ state' = deleteResults(state, objects)

\* the user asks for a run of the tests of the files at these paths
RunTests(paths) ==
    /\ UNCHANGED <<schedVars, start, partVars>>
    /\ steps < MaxSteps
    /\ inbox = <<>>
    /\ steps' = steps + 1
    /\ UNCHANGED <<disk, edits, inbox, isRunning, testStatus, vitestState, isWatching>>
    /\ IF vitestState = "none"
       THEN /\ pass' = [NoPass EXCEPT !.handler = "runTests", !.before = Before]
            /\ UNCHANGED <<items, resolved, tree, idMap, lastArr, hist>>
            /\ UNCHANGED <<state, run, openRuns, runState>>
       ELSE Requests(Requested(state, paths),
                     runFiles(Discovered, FilesNow(state, Requested(state, paths)), <<>>))

\* watch(): the client is built, or connected again; the effect on its files
\* discovers them
Watch ==
    /\ UNCHANGED <<schedVars, start, partVars>>
    /\ steps < MaxSteps
    /\ inbox = <<>>
    /\ steps' = steps + 1
    /\ isRunning' = TRUE
    /\ isWatching' = TRUE
    /\ vitestState' = "loading"
    /\ pass' = [NoPass EXCEPT !.handler = "watch", !.before = Before]
    /\ Becomes(onFileUpdated(Discovered, FilesNow(state, getFiles(state))))
    /\ UNCHANGED <<disk, edits, inbox, state, run, testStatus, openRuns, runState>>

\* vitestState.loadingPromise.then: the client has loaded
Loaded ==
    /\ UNCHANGED <<schedVars, start, partVars>>
    /\ vitestState = "loading"
    /\ inbox = <<>>
    /\ vitestState' = "ready"
    /\ testStatus' = updateStatus(state)
    /\ isRunning' = FALSE
    /\ pass' = [NoPass EXCEPT !.handler = "loaded", !.before = Before]
    /\ UNCHANGED treeVars
    /\ UNCHANGED <<inbox, state, run, isWatching, openRuns, runState, steps>>

\* dispose(): the process is killed; the handlers of the client stay
Dispose ==
    /\ UNCHANGED <<schedVars, start, partVars>>
    /\ steps < MaxSteps
    /\ inbox = <<>>
    /\ steps' = steps + 1
    /\ isWatching' = FALSE
    /\ pass' = [NoPass EXCEPT !.handler = "dispose", !.before = Before]
    /\ UNCHANGED treeVars
    /\ UNCHANGED <<inbox, state, run, isRunning, testStatus, vitestState, openRuns,
                   runState>>

\* the Vitest process sends an event
Deliver(event) ==
    /\ UNCHANGED <<schedVars, start, partVars>>
    /\ steps < MaxSteps
    /\ inbox = <<>>
    /\ vitestState /= "none"
    /\ steps' = steps + 1
    /\ inbox' = <<event>>
    /\ UNCHANGED treeVars
    /\ UNCHANGED <<state, run, isRunning, testStatus, pass, vitestState, isWatching,
                   openRuns, runState>>

\* the layouts of the files the matcher is checked on: the calls follow each
\* other or enclose each other without a gap
Compact(content) ==
    {c.s : c \in content.calls} \cup {c.e : c \in content.calls}
        = 0..(2 * Cardinality(content.calls) - 1)

\* the Vitest process has collected the files of a run and reports its end
MatchInit ==
    /\ Idle
    /\ disk \in {d \in [Files -> Contents] :
                   \A f \in Files : /\ d[f].ok
                                    /\ Compact(d[f])
                                    /\ f \notin Editable => d[f] = FixedContent}
    /\ items = <<>>
    /\ resolved = [f \in Files |-> FALSE]
    /\ tree = [f \in Files |-> <<>>]
    /\ idMap = {}
    /\ lastArr = [f \in Files |-> <<>>]
    /\ edits = 0
    /\ hist = NoHist
    /\ \E event \in FinishedEvents :
          /\ inbox = <<event>>
          /\ state = collectFiles(NoState, event.files)
    /\ run = "none"
    /\ isRunning = TRUE
    /\ testStatus = [passed |-> 0, failed |-> 0, skipped |-> 0]
    /\ pass = NoPass
    /\ vitestState = "loading"
    /\ isWatching = TRUE
    /\ openRuns = 0
    /\ runState = <<>>
    /\ steps = 0

MatchNext == OnFinished

SpecMatch == MatchInit /\ [][MatchNext]_vars

(***************************************************************************)
(* One event of a run on a file with two tests, with every result a test   *)
(* can have, while the run is in progress or at its end.                   *)
(***************************************************************************)
\* every result of a task: none, or a state, a failed test with or without
\* an error
AllResults ==
    {NoResult, Result("fail", <<"boom">>)}
    \cup {Result(s, <<>>) : s \in {"pass", "fail", "skip", "todo", "run", "only"}}

Test(name, result) == [type |-> "test", name |-> name, result |-> result, tasks |-> <<>>]

\* the file of the tests 'adds [0]' and 'adds', with any results: the first
\* is matched by the approximate search, the second by its name
SyncFiles ==
    {<<[filepath |-> "/f1", tasks |-> <<Test("adds [0]", r1), Test("adds", r2)>>]>> :
        r1 \in AllResults, r2 \in AllResults}

\* the end of the run with the files, or a new result of one of the tests
SyncEvents(files) ==
    {[type |-> "finished", defined |-> TRUE, files |-> files]}
    \cup {[type |-> "taskUpdate", malformed |-> FALSE,
           packs |-> <<[id |-> id, result |-> r]>>] :
             id \in {"/f1_1", "/f1_2"}, r \in AllResults \ {NoResult}}

\* the files were collected, the file on disk has the one test 'adds'
SyncInit ==
    /\ Idle
    /\ disk = [f \in Files |-> FixedContent]
    /\ items = <<>>
    /\ resolved = [f \in Files |-> FALSE]
    /\ tree = [f \in Files |-> <<>>]
    /\ idMap = {}
    /\ lastArr = [f \in Files |-> <<>>]
    /\ edits = 0
    /\ hist = NoHist
    /\ \E files \in SyncFiles :
          /\ state = collectFiles(NoState, files)
          /\ \E event \in SyncEvents(files) : inbox = <<event>>
    /\ run = "none"
    /\ isRunning = FALSE
    /\ testStatus = [passed |-> 0, failed |-> 0, skipped |-> 0]
    /\ pass = NoPass
    /\ vitestState = "ready"
    /\ isWatching = TRUE
    /\ openRuns = 0
    /\ runState = <<>>
    /\ steps = 0

SyncNext ==
    \/ OnFinished
    \/ OnTaskUpdate

SpecSync == SyncInit /\ [][SyncNext]_vars

(***************************************************************************)
(* A session of the watcher: the events of the Vitest process and the      *)
(* requests of the user in any order.                                      *)
(***************************************************************************)
\* the results the events of a session carry
WatchResults == {Result("run", <<>>), Result("pass", <<>>), Result("fail", <<"boom">>)}

EndResults == {Result("pass", <<>>), Result("fail", <<"boom">>)}

\* the file with its one test, or with the two cases of a test.each
OneTest(r) == <<[filepath |-> "/f1", tasks |-> <<Test("adds", r)>>]>>

TwoTests(r1, r2) ==
    <<[filepath |-> "/f1", tasks |-> <<Test("adds [0]", r1), Test("adds [1]", r2)>>]>>

CollectedEvents ==
    {[type |-> "collected", malformed |-> FALSE, files |-> files] :
        files \in {OneTest(NoResult), OneTest(Result("pass", <<>>)),
                   TwoTests(NoResult, NoResult)}}
    \cup {[type |-> "collected", malformed |-> TRUE, files |-> <<>>]}

TaskUpdateEvents ==
    {[type |-> "taskUpdate", malformed |-> FALSE, packs |-> <<[id |-> id, result |-> r]>>] :
        id \in {"/f1_1", "/f1_2"}, r \in WatchResults}
    \cup {[type |-> "taskUpdate", malformed |-> TRUE, packs |-> <<>>]}

ConsoleLogEvents ==
    {[type |-> "consoleLog", malformed |-> FALSE, log |-> [taskId |-> "/f1_1"]],
     [type |-> "consoleLog", malformed |-> TRUE, log |-> <<>>]}

EndEvents ==
    {[type |-> "finished", defined |-> TRUE, files |-> files] :
        files \in {OneTest(r) : r \in EndResults \cup {NoResult}}
                  \cup {TwoTests(r1, r2) : r1 \in EndResults, r2 \in EndResults}}
    \cup {[type |-> "finished", defined |-> FALSE, files |-> <<>>]}

WatchEvents == CollectedEvents \cup TaskUpdateEvents \cup ConsoleLogEvents \cup EndEvents

\* the paths of the files a request of the user holds tests of
Paths == {"/f1", "/f2"}

\* the watcher was created and watch() was called; the files on disk have
\* the one test 'adds'
WatchInit ==
    /\ Idle
    /\ disk = [f \in Files |-> FixedContent]
    /\ items = <<>>
    /\ resolved = [f \in Files |-> FALSE]
    /\ tree = [f \in Files |-> <<>>]
    /\ idMap = {}
    /\ lastArr = [f \in Files |-> <<>>]
    /\ edits = 0
    /\ hist = NoHist
    /\ inbox = <<>>
    /\ state = NoState
    /\ run = "none"
    /\ isRunning = TRUE
    /\ testStatus = [passed |-> 0, failed |-> 0, skipped |-> 0]
    /\ pass = NoPass
    /\ vitestState = "loading"
    /\ isWatching = TRUE
    /\ openRuns = 0
    /\ runState = <<>>
    /\ steps = 0

WatchNext ==
    \/ \E event \in WatchEvents : Deliver(event)
    \/ OnCollected
    \/ OnTaskUpdate
    \/ OnUserConsoleLog
    \/ OnFinished
    \/ \E paths \in {Paths, {}} : RunTests(paths)
    \/ Watch
    \/ Loaded
    \/ Dispose

SpecWatch == WatchInit /\ [][WatchNext]_vars

\* the files of the workspace are created, change and are discovered while the
\* Vitest process sends what it has collected and the results of tasks
FilesNext ==
    \/ \E f \in Files : OnDidCreate(f)
    \/ \E f \in Files : OnDidChange(f)
    \/ \E f \in Files, forceReload \in BOOLEAN : DiscoverTestFromPath(f, forceReload)
    \/ \E event \in CollectedEvents \cup TaskUpdateEvents : Deliver(event)
    \/ OnCollected
    \/ OnTaskUpdate

SpecFiles == WatchInit /\ [][FilesNext]_vars

(***************************************************************************)
(* Continuous runs.  In the worker a VitestWatcher replaces the function   *)
(* of Vitest that schedules a rerun after a file has changed: Vitest puts  *)
(* the changed test files in ctx.changedTests and calls the function with  *)
(* the file that changed.                                                  *)
(***************************************************************************)
\* String.prototype.startsWith
startsWith(s, prefix) == Len(prefix) <= Len(s) /\ SubSeq(s, 1, Len(prefix)) = prefix

\* mutant: every watched entry is taken as a prefix
isTestFileWatched_anyPrefix(this, testFile) ==
    IF Len(this.files) = 0 THEN FALSE
    ELSE \E i \in 1..Len(this.files) :
            \/ this.files[i] = testFile
            \/ startsWith(testFile, this.files[i])

\* mutant: only the directories of the list are watched
isTestFileWatched_onlyDirectories(this, testFile) ==
    IF Len(this.files) = 0 THEN FALSE
    ELSE \E i \in 1..Len(this.files) :
            /\ Len(this.files[i]) > 0
            /\ SubSeq(this.files[i], Len(this.files[i]), Len(this.files[i])) = "/"
            /\ startsWith(testFile, this.files[i])

\* mutant: an entry without the separator at its end is taken as a directory
isTestFileWatched_separatorAdded(this, testFile) ==
    IF Len(this.files) = 0 THEN FALSE
    ELSE \E i \in 1..Len(this.files) :
            \/ this.files[i] = testFile
            \/ startsWith(testFile, this.files[i] \o "/")
            \/ /\ Len(this.files[i]) > 0
               /\ SubSeq(this.files[i], Len(this.files[i]), Len(this.files[i])) = "/"
               /\ startsWith(testFile, this.files[i])

\* isTestFileWatched(testFile)
isTestFileWatched(this, testFile) ==
    IF Len(this.files) = 0 THEN FALSE
    ELSE \E i \in 1..Len(this.files) :
            \/ this.files[i] = testFile
            \/ /\ Len(this.files[i]) > 0
               /\ SubSeq(this.files[i], Len(this.files[i]), Len(this.files[i])) = "/"
               /\ startsWith(testFile, this.files[i])

\* originalScheduleRerun.call(this, files): what the scheduler of Vitest is
\* handed, the sets and the pattern being read by it from ctx
originalScheduleRerun(c, files) ==
    [files |-> files, changedTests |-> c.changedTests, invalidates |-> c.invalidates,
     testNamePattern |-> c.testNamePattern]

\* the call is delegated at once
Delegated(c, files) == [ctx |-> c, delegated |-> TRUE, handed |-> originalScheduleRerun(c, files)]

\* the call waits for astCollect, and delegates when it has resolved
Collecting(c, files) ==
    [ctx |-> [c EXCEPT !.collecting = Append(@, [files |-> files, off |-> TRUE])],
     delegated |-> FALSE, handed |-> <<>>]

\* mutant: the sets of Vitest are kept when a file that is no test has changed
notTracking_keepsSets(c, files, isTestFileTrigger, browserSpecs) ==
    IF ~isTestFileTrigger
    THEN Delegated(c, files)
    ELSE IF browserSpecs /= {}
         THEN Collecting([c EXCEPT !.testNamePattern = COLLECT_NAME_PATTERN], files)
         ELSE Delegated([c EXCEPT !.testNamePattern = COLLECT_NAME_PATTERN], files)

\* if (!state.enabled): no test is to run, the tests are collected
notTracking(c, files, isTestFileTrigger, browserSpecs) ==
    IF ~isTestFileTrigger
    THEN Delegated([c EXCEPT !.changedTests = {}, !.invalidates = {}], files)
    ELSE IF browserSpecs /= {}
         THEN Collecting([c EXCEPT !.testNamePattern = COLLECT_NAME_PATTERN], files)
         ELSE Delegated([c EXCEPT !.testNamePattern = COLLECT_NAME_PATTERN], files)

\* mutant: the changed tests are kept when none of them is watched
updatedTests_keepsWhenNone(this, c, isTestFileTrigger) ==
    IF ~isTestFileTrigger /\ \E file \in c.changedTests : isTestFileWatched(this, file)
    THEN {file \in c.changedTests : isTestFileWatched(this, file)}
    ELSE c.changedTests

\* this.changedTests after the filter of the tests that are not watched
updatedTests(this, c, isTestFileTrigger) ==
    IF ~isTestFileTrigger
    THEN {file \in c.changedTests : isTestFileWatched(this, file)}
    ELSE c.changedTests

\* mutant: the changed tests are filtered also when every file is watched
tracking_filters(this, c, files, isTestFileTrigger) ==
    Delegated([c EXCEPT !.testNamePattern = this.testNamePattern,
                        !.changedTests = updatedTests(this, c, isTestFileTrigger)],
              files)

\* the watcher is enabled: the pattern of the watcher is set, and the changed
\* tests are filtered unless every file is watched
tracking(this, c, files, isTestFileTrigger) ==
    IF this.watchEveryFile
    THEN Delegated([c EXCEPT !.testNamePattern = this.testNamePattern], files)
    ELSE Delegated([c EXCEPT !.testNamePattern = this.testNamePattern,
                             !.changedTests = updatedTests(this, c, isTestFileTrigger)],
                   files)

scheduleRerun(this, c, files, browserSpecs) ==
    IF ~this.enabled
    THEN notTracking(c, files, Head(files) \in c.changedTests, browserSpecs)
    ELSE tracking(this, c, files, Head(files) \in c.changedTests)

\* a file has changed: Vitest has added the tests to run to its set and calls
\* ctx.scheduleRerun([file]); browser is the set of the test files of a
\* project that runs in the browser
ScheduleRerun(file, tests, browser) ==
    /\ ctx.calls < MaxCalls
    /\ Len(ctx.collecting) + (IF browser = {} THEN 0 ELSE 1) <= MaxCollecting
    /\ LET c == [ctx EXCEPT !.changedTests = @ \cup tests, !.invalidates = @ \cup {file},
                            !.calls = @ + 1]
           done == scheduleRerun(watcher, c, <<file>>, c.changedTests \cap browser)
       IN  /\ ctx' = done.ctx
           /\ watcher' = [watcher EXCEPT !.rerunTriggered = watcher.enabled \/ @]
           /\ rerun' = [step |-> "scheduleRerun", files |-> <<file>>,
                        changedTests |-> c.changedTests,
                        isTestFileTrigger |-> file \in c.changedTests,
                        off |-> ~watcher.enabled, watcher |-> watcher,
                        delegated |-> done.delegated, handed |-> done.handed]
    /\ UNCHANGED <<treeVars, watchVars, start, partVars>>

\* astCollect has resolved for a call that waited: the call delegates with no file
AstCollected ==
    /\ \E k \in 1..Len(ctx.collecting) :
          /\ ctx' = [ctx EXCEPT !.collecting =
                        SubSeq(@, 1, k - 1) \o SubSeq(@, k + 1, Len(@))]
          /\ rerun' = [step |-> "astCollect", files |-> ctx.collecting[k].files,
                       changedTests |-> ctx.changedTests,
                       isTestFileTrigger |-> TRUE, off |-> ctx.collecting[k].off,
                       watcher |-> watcher, delegated |-> TRUE,
                       handed |-> originalScheduleRerun(ctx, <<>>)]
    /\ UNCHANGED watcher
    /\ UNCHANGED <<treeVars, watchVars, start, partVars>>

\* tracking begins: the calls that wait were not made with tracking off throughout
Tracked(c) ==
    [c EXCEPT !.collecting = [k \in 1..Len(@) |-> [@[k] EXCEPT !.off = FALSE]]]

\* markRerun(rerun)
MarkRerun(triggered) ==
    /\ watcher' = [watcher EXCEPT !.rerunTriggered = triggered]
    /\ rerun' = [NoRerun EXCEPT !.step = "markRerun"]
    /\ UNCHANGED ctx
    /\ UNCHANGED <<treeVars, watchVars, start, partVars>>

\* trackTests(files, testNamePatern)
TrackTests(files, testNamePatern) ==
    /\ watcher' = [enabled |-> TRUE, files |-> files, watchEveryFile |-> FALSE,
                   testNamePattern |-> testNamePatern, rerunTriggered |-> FALSE]
    /\ ctx' = Tracked(ctx)
    /\ rerun' = [NoRerun EXCEPT !.step = "trackTests"]
    /\ UNCHANGED <<treeVars, watchVars, start, partVars>>

\* mutant: the list of files and the pattern of the name are kept
TrackEveryFile_keepsList ==
    /\ watcher' = [watcher EXCEPT !.enabled = TRUE, !.watchEveryFile = TRUE,
                                  !.rerunTriggered = FALSE]
    /\ ctx' = Tracked(ctx)
    /\ rerun' = [NoRerun EXCEPT !.step = "trackEveryFile"]
    /\ UNCHANGED <<treeVars, watchVars, start, partVars>>

\* trackEveryFile()
TrackEveryFile ==
    /\ watcher' = [enabled |-> TRUE, files |-> <<>>, watchEveryFile |-> TRUE,
                   testNamePattern |-> Undefined, rerunTriggered |-> FALSE]
    /\ ctx' = Tracked(ctx)
    /\ rerun' = [NoRerun EXCEPT !.step = "trackEveryFile"]
    /\ UNCHANGED <<treeVars, watchVars, start, partVars>>

\* stopTracking()
StopTracking ==
    /\ watcher' = [watcher EXCEPT !.enabled = FALSE]
    /\ rerun' = [NoRerun EXCEPT !.step = "stopTracking"]
    /\ UNCHANGED ctx
    /\ UNCHANGED <<treeVars, watchVars, start, partVars>>

\* the files of the workspace: three test files and a source file
TestFiles == {"/a/x", "/a/xy", "/b/y"}

SourceFiles == {"/s"}

\* the lists trackTests is given: none, a directory with and without the
\* separator at its end, a file, or a file and a directory
Tracks == {<<>>, <<"/a/">>, <<"/a">>, <<"/a/x">>, <<"/b/y", "/a/">>}

\* the worker has started: nothing is tracked, no file has changed
SchedInit ==
    /\ Idle
    /\ disk = [f \in Files |-> FixedContent]
    /\ items = <<>>
    /\ resolved = [f \in Files |-> FALSE]
    /\ tree = [f \in Files |-> <<>>]
    /\ idMap = {}
    /\ lastArr = [f \in Files |-> <<>>]
    /\ edits = 0
    /\ hist = NoHist
    /\ inbox = <<>>
    /\ state = NoState
    /\ run = "none"
    /\ isRunning = FALSE
    /\ testStatus = [passed |-> 0, failed |-> 0, skipped |-> 0]
    /\ pass = NoPass
    /\ vitestState = "none"
    /\ isWatching = FALSE
    /\ openRuns = 0
    /\ runState = <<>>
    /\ steps = 0

SchedNext ==
    \/ \E file \in TestFiles \cup SourceFiles, tests \in SUBSET TestFiles,
          browser \in {{}, {"/b/y"}} : ScheduleRerun(file, tests, browser)
    \/ AstCollected
    \/ \E triggered \in BOOLEAN : MarkRerun(triggered)
    \/ \E files \in Tracks, testNamePatern \in {Undefined, "adds"} :
          TrackTests(files, testNamePatern)
    \/ TrackEveryFile
    \/ StopTracking

SpecSched == SchedInit /\ [][SchedNext]_vars

(***************************************************************************)
(* A continuous run of one test file: the file or a source file changes,   *)
(* the VitestWatcher delegates, Vitest runs the changed tests left in its  *)
(* set and sends the events of the run, and the TestWatcher handles them.  *)
(***************************************************************************)
\* the test file of the continuous run, and the source file it imports
Continuous == "/f1"

Imported == "/s"

\* the changed tests Vitest attributes a change to: a test file to itself, the
\* source file to the test that imports it or to no test
Attributed(file) == IF file = Continuous THEN {{Continuous}} ELSE {{Continuous}, {}}

\* the events of a run of the file whose test ends with a result; the last
\* one carries the number of the file change the run answers
RunEvents(result, call) ==
    <<[type |-> "collected", malformed |-> FALSE, files |-> OneTest(NoResult)],
      [type |-> "taskUpdate", malformed |-> FALSE,
       packs |-> <<[id |-> TaskId(Continuous, 1), result |-> Result("run", <<>>)]>>],
      [type |-> "finished", defined |-> TRUE, files |-> OneTest(result), call |-> call]>>

\* the scheduler of Vitest runs the changed tests once the run before has sent
\* its events, and empties its sets
VitestRuns(result) ==
    /\ Continuous \in ctx.changedTests
    /\ inbox = <<>>
    /\ vitestState /= "none"
    /\ inbox' = RunEvents(result, ctx.calls)
    /\ ctx' = [ctx EXCEPT !.changedTests = {}, !.invalidates = {}]
    /\ UNCHANGED <<watcher, rerun>>
    /\ UNCHANGED <<treeVars, start, partVars>>
    /\ UNCHANGED <<state, run, isRunning, testStatus, pass, vitestState, isWatching,
                   openRuns, runState, steps>>

\* the file is tracked by trackTests([file]) and the client is connected
RerunInit ==
    /\ watcher = [enabled |-> TRUE, files |-> <<Continuous>>, watchEveryFile |-> FALSE,
                  testNamePattern |-> Undefined, rerunTriggered |-> FALSE]
    /\ ctx = NewCtx
    /\ rerun = NoRerun
    /\ start = NoStart
    /\ Apart
    /\ disk = [f \in Files |-> FixedContent]
    /\ items = <<>>
    /\ resolved = [f \in Files |-> FALSE]
    /\ tree = [f \in Files |-> <<>>]
    /\ idMap = {}
    /\ lastArr = [f \in Files |-> <<>>]
    /\ edits = 0
    /\ hist = NoHist
    /\ inbox = <<>>
    /\ state = NoState
    /\ run = "none"
    /\ isRunning = FALSE
    /\ testStatus = [passed |-> 0, failed |-> 0, skipped |-> 0]
    /\ pass = NoPass
    /\ vitestState = "ready"
    /\ isWatching = TRUE
    /\ openRuns = 0
    /\ runState = <<>>
    /\ steps = 0

RerunNext ==
    \/ \E file \in {Continuous, Imported} :
          \E tests \in Attributed(file) : ScheduleRerun(file, tests, {})
    \/ \E result \in EndResults : VitestRuns(result)
    \/ \E f \in {UriFile(Continuous)} : OnDidChange(f)
    \/ OnCollected
    \/ OnTaskUpdate
    \/ OnFinished

\* the message handler of the socket takes the first event sent: the step of
\* the handler of that event
Handled == Len(inbox) > 0 /\ inbox' = Tail(inbox)

\* Vitest runs what is scheduled, and every event sent is handled
SpecRerun ==
    /\ RerunInit
    /\ [][RerunNext]_vars
    /\ WF_vars(\E result \in EndResults : VitestRuns(result))
    /\ WF_inbox(Handled)

(***************************************************************************)
(* Reading trees and ids.                                                  *)
(***************************************************************************)
NodeIds(nodes) == {nodes[i].id : i \in 1..Len(nodes)}

ParentsOf(nodes, id) == {nodes[i].parent : i \in {j \in 1..Len(nodes) : nodes[j].id = id}}

\* the ids of the children of a node, in the order of its children
ChildIds(nodes, parent) ==
    LET kids == SelectSeq(nodes, LAMBDA n : n.parent = parent)
    IN  [i \in 1..Len(kids) |-> kids[i].id]

\* the labels of the suites around node i and its own, outermost first
RECURSIVE LabelPath(_, _, _)
LabelPath(uri, nodes, i) ==
    IF nodes[i].parent = uri THEN <<nodes[i].label>>
    ELSE LET p == CHOOSE j \in 1..Len(nodes) : nodes[j].id = nodes[i].parent
         IN  Append(LabelPath(uri, nodes, p), nodes[i].label)

\* the indices of the suites around node i, as the tree nests them
RECURSIVE Ancestors(_, _, _)
Ancestors(uri, nodes, i) ==
    IF nodes[i].parent = uri THEN {}
    ELSE LET p == CHOOSE j \in 1..Len(nodes) : nodes[j].id = nodes[i].parent
         IN  {p} \cup Ancestors(uri, nodes, p)

NodeFullName(uri, nodes, i) == Trim(JoinSpace(LabelPath(uri, nodes, i)))

\* the position of the last '@' of an id
RECURSIVE LastAt(_, _)
LastAt(id, k) ==
    IF k = 0 THEN 0
    ELSE IF SubSeq(id, k, k) = "@" THEN k
    ELSE LastAt(id, k - 1)

Ordinal(id) == SubSeq(id, LastAt(id, Len(id)) + 1, Len(id))

NamePart(uri, id) == SubSeq(id, Len(uri) + 2, LastAt(id, Len(id)) - 1)

\* p starts before q in the source
StartsBefore(p, q) == p.line < q.line \/ (p.line = q.line /\ p.column < q.column)

\* block a encloses block b
Encloses(a, b) == StartsBefore(a.start, b.start) /\ StartsBefore(b.end, a.end)

BlockSet(arr) == {arr[i] : i \in 1..Len(arr)}

\* the last apply succeeded on a file that had been applied before
Reapplied == hist.outcome = "ok" /\ hist.before[hist.file] /= <<>>

\* the last apply found the blocks of the apply before it and new ones between them
InsertedBlocks == BlockSet(hist.arr) \ BlockSet(hist.arrBefore)

IsInsertion ==
    /\ Reapplied
    /\ InsertedBlocks /= {}
    /\ SelectSeq(hist.arr, LAMBDA b : b \notin InsertedBlocks) = hist.arrBefore

\* where block i of the earlier apply is in the block list of the last apply
NewIndex(i) == CHOOSE j \in 1..Len(hist.arr) : hist.arr[j] = hist.arrBefore[i]

(***************************************************************************)
(* C1. Applying the block list a file was last applied with leaves the     *)
(* tree as it is: the same node ids, the same parents of every id and the  *)
(* same order of the children of every parent.                             *)
(***************************************************************************)
C1_Idempotent ==
    (hist.outcome = "ok" /\ hist.arr = hist.arrBefore) =>
        LET f == hist.file
            old == hist.before[f]
            new == tree[f]
        IN  /\ NodeIds(new) = NodeIds(old)
            /\ \A id \in NodeIds(old) : ParentsOf(new, id) = ParentsOf(old, id)
            /\ \A p \in NodeIds(old) \cup {f} : ChildIds(new, p) = ChildIds(old, p)
            /\ \A g \in Files \ {f} : tree[g] = hist.before[g]

\* a file with a suite and a node in it was applied a second time
C1_Witness ==
    /\ hist.outcome = "ok" /\ hist.arr = hist.arrBefore
    /\ \E i \in 1..Len(hist.before[hist.file]) :
          hist.before[hist.file][i].parent /= hist.file

(***************************************************************************)
(* C2. As claimed: a block that keeps its index and its own name keeps its *)
(* id over a new parse, whatever else changed in the file.                 *)
(***************************************************************************)
C2_Original ==
    Reapplied =>
        LET old == hist.before[hist.file]
            new == tree[hist.file]
        IN  \A i \in 1..Len(old) :
                (i <= Len(new) /\ old[i].label = new[i].label) => old[i].id = new[i].id

(***************************************************************************)
(* C2, amended. A block that keeps its index and its full name (its own    *)
(* name after the names of the suites around it) keeps its id over a new   *)
(* parse, whatever else changed in the file.                               *)
(***************************************************************************)
C2_Amended ==
    Reapplied =>
        LET f == hist.file
            old == hist.before[f]
            new == tree[f]
        IN  \A i \in 1..Len(old) :
                (i <= Len(new) /\ NodeFullName(f, old, i) = NodeFullName(f, new, i))
                    => old[i].id = new[i].id

\* a block kept its index and its full name while the blocks moved to other lines
C2_Witness ==
    /\ Reapplied
    /\ hist.arr /= hist.arrBefore
    /\ LET f == hist.file
       IN  \E i \in 1..Len(hist.before[f]) :
             /\ i <= Len(tree[f])
             /\ NodeFullName(f, hist.before[f], i) = NodeFullName(f, tree[f], i)
             /\ hist.before[f][i].range /= tree[f][i].range

(***************************************************************************)
(* C3. The ids of the nodes of one file are pairwise distinct, also when   *)
(* blocks share their name or their full name.                             *)
(***************************************************************************)
C3_DistinctIds ==
    \A f \in Files : \A i, j \in 1..Len(tree[f]) : i /= j => tree[f][i].id /= tree[f][j].id

\* two nodes of a file have the same full name, a suite and a case among them
C3_Witness ==
    \E f \in Files : \E i, j \in 1..Len(tree[f]) :
        /\ i /= j
        /\ NodeFullName(f, tree[f], i) = NodeFullName(f, tree[f], j)
        /\ tree[f][i].kind /= tree[f][j].kind

C5_ParseErrorKeepsTree ==
    hist.outcome = "parse error" =>
        /\ tree = hist.before
        /\ \A f \in Files : tree[f] = BuildTree(f, lastArr[f]).nodes

\* the parse of a file with nodes failed while another file has nodes too
C5_Witness ==
    /\ hist.outcome = "parse error"
    /\ tree[hist.file] /= <<>>
    /\ \E g \in Files \ {hist.file} : tree[g] /= <<>>

(***************************************************************************)
(* Reading the record of the last handled event.                           *)
(***************************************************************************)
\* two matcher calls of one call of sync
SamePass(r, q) == r.file = q.file /\ r.call = q.call

\* the candidates of a matcher call that have the kind and the name asked for
Named(r) ==
    {c \in 1..Len(r.pool) :
        /\ tree[r.file][r.pool[c]].label = r.name
        /\ tree[r.file][r.pool[c]].kind = (IF r.type = "suite" THEN "describe" ELSE "it")}

\* the score of a candidate of a matcher call in the approximate search
ScoreOf(r, node) == FuseScores[r.name][tree[r.file][node].label]

PoolOf(r) == {r.pool[c] : c \in 1..Len(r.pool)}

\* the tests below a task list, each with its path
RECURSIVE TestsOf(_, _)
TestsOf(tasks, path) ==
    UNION {IF tasks[k].type = "test"
           THEN {[task |-> Append(path, k), result |-> tasks[k].result]}
           ELSE TestsOf(tasks[k].tasks, Append(path, k)) : k \in 1..Len(tasks)}

IsPrefix(p, q) == Len(p) <= Len(q) /\ SubSeq(q, 1, Len(p)) = p

\* the run was told about the test at this path of the file
Notified(uri, path) ==
    \E n \in 1..Len(pass.notes) : pass.notes[n].file = uri /\ pass.notes[n].task = path

(***************************************************************************)
(* C6. When the pool holds a candidate of the requested kind whose name    *)
(* equals the name of the task, matchTask returns the first such candidate *)
(* from its exact loop, whatever the approximate search would rank first;  *)
(* the approximate search runs only when there is no such candidate.       *)
(***************************************************************************)
C6_ExactPriority ==
    \A i \in 1..Len(pass.matches) :
        LET r == pass.matches[i]
        IN  /\ Named(r) /= {} =>
                 /\ r.phase = "exact"
                 /\ r.ans = r.pool[CHOOSE c \in Named(r) : \A d \in Named(r) : c <= d]
            /\ r.phase /= "exact" => Named(r) = {}

\* a test was matched by name although the approximate search ranks another
\* candidate of the pool first
C6_Witness ==
    \E i \in 1..Len(pass.matches) :
        LET r == pass.matches[i]
            top == FuseSearch([c \in 1..Len(r.pool) |-> tree[r.file][r.pool[c]].label],
                              r.name)
        IN  /\ Named(r) /= {}
            /\ r.phase = "exact"
            /\ top /= 0
            /\ r.pool[top] /= r.ans

(***************************************************************************)
(* C7. As claimed: within one call of sync no node is returned by the      *)
(* matcher for two different tasks.                                        *)
(***************************************************************************)
C7_Original ==
    \A i, j \in 1..Len(pass.matches) :
        (i /= j /\ SamePass(pass.matches[i], pass.matches[j]) /\ pass.matches[i].ans /= 0)
            => pass.matches[i].ans /= pass.matches[j].ans

(***************************************************************************)
(* C7, amended. Within one call of sync a node returned by the exact loop  *)
(* of the matcher is in the pool of no later task and is returned for no   *)
(* later task; a node returned by the approximate search stays in the pool *)
(* and can be returned again.                                              *)
(***************************************************************************)
C7_Amended ==
    \A i, j \in 1..Len(pass.matches) :
        (i < j /\ SamePass(pass.matches[i], pass.matches[j])
               /\ pass.matches[i].phase = "exact")
            => /\ pass.matches[j].ans /= pass.matches[i].ans
               /\ pass.matches[i].ans \notin PoolOf(pass.matches[j])

\* two tasks of one pass have the same name and kind and were matched by
\* name, to two nodes
C7_Witness ==
    \E i, j \in 1..Len(pass.matches) :
        LET r == pass.matches[i]
            q == pass.matches[j]
        IN  /\ i < j /\ SamePass(r, q)
            /\ r.name = q.name /\ r.type = q.type
            /\ r.phase = "exact" /\ q.phase = "exact"
            /\ r.ans /= q.ans

(***************************************************************************)
(* C8. A node returned by the approximate search stays in the pool: it is  *)
(* a candidate for every later task of the pass until the exact loop       *)
(* returns it, so two tasks of one pass with different names that equal no *)
(* candidate's name can get the same node; an error is raised only when a  *)
(* task got no node.                                                       *)
(***************************************************************************)
C8_FuzzyKeepsPool ==
    /\ \A i \in 1..Len(pass.matches) :
          LET r == pass.matches[i]
          IN  r.phase = "fuzzy" => (r.left = r.pool /\ r.ans \in PoolOf(r))
    /\ \A i, j \in 1..Len(pass.matches) :
          LET r == pass.matches[i]
              q == pass.matches[j]
          IN  (/\ i < j /\ SamePass(r, q) /\ r.phase = "fuzzy"
               /\ \A k \in (i + 1)..(j - 1) :
                     ~(/\ SamePass(r, pass.matches[k])
                       /\ pass.matches[k].phase = "exact"
                       /\ pass.matches[k].ans = r.ans))
                  => r.ans \in PoolOf(q)
    /\ pass.error => \E i \in 1..Len(pass.matches) : pass.matches[i].ans = 0

\* two tests of one pass, named with different parameters, got the same node
\* and the run was told about both
C8_Witness ==
    \E i, j \in 1..Len(pass.matches) :
        LET r == pass.matches[i]
            q == pass.matches[j]
        IN  /\ i < j /\ SamePass(r, q)
            /\ r.type = "test" /\ q.type = "test"
            /\ r.name /= q.name
            /\ r.phase = "fuzzy" /\ q.phase = "fuzzy"
            /\ r.ans = q.ans
            /\ ~pass.error
            /\ Notified(r.file, r.task) /\ Notified(q.file, q.task)

(***************************************************************************)
(* C9. When no candidate of the requested kind has the name of the task,   *)
(* matchTask returns the candidate of the pool the approximate search      *)
(* ranks first (none when no candidate is similar enough): the test        *)
(* 'adds [0]' gets a node named 'adds' when the only case of the pool is   *)
(* named 'adds', and that very case when the pool holds nothing else.      *)
(***************************************************************************)
C9_FuzzyTopRanked ==
    \A i \in 1..Len(pass.matches) :
        LET r == pass.matches[i]
            similar == {n \in PoolOf(r) : ScoreOf(r, n).isMatch}
            cases == {n \in PoolOf(r) : tree[r.file][n].kind = "it"}
        IN  /\ Named(r) = {} =>
                 IF similar = {} THEN r.ans = 0
                 ELSE /\ r.ans \in similar
                      /\ \A n \in similar : ScoreOf(r, r.ans).score <= ScoreOf(r, n).score
            /\ (/\ r.type = "test" /\ r.name = "adds [0]"
                /\ Cardinality(cases) = 1
                /\ \A n \in cases : tree[r.file][n].label = "adds")
                  => /\ r.ans /= 0
                     /\ tree[r.file][r.ans].label = "adds"
                     /\ PoolOf(r) = cases => r.ans \in cases

\* the test 'adds [0]' passed and the pool was the one case 'adds': the run
\* was told that the case passed
C9_Witness ==
    \E i \in 1..Len(pass.matches) :
        LET r == pass.matches[i]
        IN  /\ r.type = "test" /\ r.name = "adds [0]"
            /\ Len(r.pool) = 1
            /\ tree[r.file][r.pool[1]].kind = "it"
            /\ tree[r.file][r.pool[1]].label = "adds"
            /\ r.phase = "fuzzy"
            /\ r.ans = r.pool[1]
            /\ \E n \in 1..Len(pass.notes) :
                  /\ pass.notes[n].task = r.task
                  /\ pass.notes[n].kind = "passed"
                  /\ pass.notes[n].item = tree[r.file][r.ans].id

(***************************************************************************)
(* C10. As claimed: a task the matcher finds no node for raises no error   *)
(* and tells the run nothing, and the run is still told about every other  *)
(* test of the event, in every file of the event.                          *)
(***************************************************************************)
C10_Original ==
    pass.handler /= "none" =>
        /\ ~pass.error
        /\ \A i \in 1..Len(pass.matches) :
              pass.matches[i].ans = 0
                  => ~Notified(pass.matches[i].file, pass.matches[i].task)
        /\ \A k \in 1..Len(pass.files) :
              LET uri == UriFile(pass.files[k].filepath)
              IN  /\ \E s \in 1..Len(pass.synced) : pass.synced[s] = uri
                  /\ \A t \in TestsOf(pass.files[k].tasks, <<>>) :
                        Transition(t.result, pass.finished) /= "none"
                            => \/ Notified(uri, t.task)
                               \/ \E i \in 1..Len(pass.matches) :
                                     /\ pass.matches[i].file = uri
                                     /\ pass.matches[i].ans = 0
                                     /\ IsPrefix(pass.matches[i].task, t.task)

(***************************************************************************)
(* Reading runs.                                                           *)
(***************************************************************************)
\* the task at a path below a task list
RECURSIVE TaskAt(_, _)
TaskAt(tasks, path) ==
    IF Len(path) = 1 THEN tasks[path[1]]
    ELSE TaskAt(tasks[path[1]].tasks, Tail(path))

\* the runtime task of a call of the matcher in the last pass
TaskOfMatch(r) ==
    LET k == CHOOSE k \in 1..Len(pass.files) : UriFile(pass.files[k].filepath) = r.file
    IN  TaskAt(pass.files[k].tasks, r.task)

\* the notifications of the last pass for the task of a call of the matcher
NotesOfMatch(r) ==
    {n \in 1..Len(pass.notes) : pass.notes[n].file = r.file /\ pass.notes[n].task = r.task}

\* the notification the rule of the synchronizer gives for a result, "none"
\* when it gives nothing
Rule(result, finished) ==
    IF result = NoResult THEN (IF finished THEN "skipped" ELSE "none")
    ELSE IF result.state = "pass" THEN "passed"
    ELSE IF result.state = "fail" THEN "failed"
    ELSE IF result.state = "skip" \/ result.state = "todo" THEN "skipped"
    ELSE IF result.state = "run" THEN "started"
    ELSE "none"

\* the handlers that synchronize the tree with runtime files
IsSyncPass == pass.handler \in {"onFinished", "onTaskUpdate"}

(***************************************************************************)
(* C11. For a test task the matcher found a node for, sync tells the run   *)
(* exactly what the rule gives: passed for pass, failed with the message   *)
(* of the error (the empty string without one) for fail, skipped for skip  *)
(* and todo, started for run, nothing for only; without a result, skipped  *)
(* at the end of the run and nothing while the run is in progress.         *)
(***************************************************************************)
C11_TransitionRule ==
    IsSyncPass =>
        \A i \in 1..Len(pass.matches) :
            LET r == pass.matches[i]
                t == TaskOfMatch(r)
                given == Rule(t.result, pass.finished)
            IN  (r.type = "test" /\ r.ans /= 0) =>
                    IF given = "none" THEN NotesOfMatch(r) = {}
                    ELSE /\ Cardinality(NotesOfMatch(r)) = 1
                         /\ \A n \in NotesOfMatch(r) :
                               /\ pass.notes[n].kind = given
                               /\ pass.notes[n].item = tree[r.file][r.ans].id
                               /\ pass.notes[n].message =
                                     (IF given = "failed" /\ t.result.error /= <<>>
                                      THEN t.result.error[1] ELSE "")

\* a run in progress: a test failed with a message and the run is told so,
\* a test without a result is matched and the run is told nothing about it
C11_Witness ==
    /\ pass.handler = "onTaskUpdate"
    /\ \E n \in 1..Len(pass.notes) :
          pass.notes[n].kind = "failed" /\ pass.notes[n].message = "boom"
    /\ \E i \in 1..Len(pass.matches) :
          /\ pass.matches[i].ans /= 0
          /\ TaskOfMatch(pass.matches[i]).result = NoResult
          /\ NotesOfMatch(pass.matches[i]) = {}

\* the state a notification moves an item to
StateOf(kind) == IF kind = "started" THEN "running" ELSE kind

\* the states of an item of the last run record, from waiting on
StatesOf(id) ==
    <<"waiting">> \o [i \in 1..Len(runState[id]) |-> StateOf(runState[id][i])]

\* the moves of the state machine of a case node
Edges ==
    {<<"waiting", "running">>, <<"running", "passed">>, <<"running", "failed">>,
     <<"running", "skipped">>, <<"waiting", "skipped">>}

\* the case nodes the last run record was told about
CaseItems == DOMAIN runState \ Files

(***************************************************************************)
(* C12. As claimed: within one run the states a case node is moved through *)
(* follow only waiting -> running, running -> passed, failed or skipped,   *)
(* and waiting -> skipped: a node that is passed, failed or skipped is not *)
(* moved to another state in that run (being told its state again is no    *)
(* move).                                                                  *)
(***************************************************************************)
C12_Original ==
    \A id \in CaseItems :
        \A i \in 1..(Len(StatesOf(id)) - 1) :
            \/ StatesOf(id)[i] = StatesOf(id)[i + 1]
            \/ <<StatesOf(id)[i], StatesOf(id)[i + 1]>> \in Edges

\* a taskUpdate was handled right after a finished event that ended its run
UpdateAfterFinished ==
    /\ pass.handler = "onTaskUpdate"
    /\ ~pass.thrown
    /\ pass.before.handler = "onFinished"
    /\ pass.before.run = "none"

\* the packs of the last taskUpdate that name a task the state manager knows
KnownPacks ==
    {k \in 1..Len(pass.event.packs) : pass.event.packs[k].id \in DOMAIN state.idMap}

(***************************************************************************)
(* C13. As claimed: a taskUpdate that arrives after the finished event of  *)
(* a run was processed tells no node a state and opens no run record.      *)
(***************************************************************************)
C13_Original ==
    UpdateAfterFinished =>
        /\ pass.notes = <<>>
        /\ run = "none"
        /\ openRuns = pass.before.openRuns
        /\ runState = pass.before.runState

(***************************************************************************)
(* C13. Amended: a taskUpdate that arrives after the finished event of a   *)
(* run was processed opens a new run record, which stays open, and the     *)
(* files of the known tasks it names are synchronized on that record: the  *)
(* states of the record are those this taskUpdate told.                    *)
(***************************************************************************)
C13_Amended ==
    UpdateAfterFinished =>
        /\ run = "open"
        /\ openRuns = pass.before.openRuns + 1
        /\ runState = Told(pass.notes, <<>>)
        /\ \A k \in KnownPacks :
              \E f \in 1..Len(pass.files) :
                 pass.files[f].filepath
                     = state.objects[state.idMap[pass.event.packs[k].id].file].file.filepath
        /\ \A n \in 1..Len(pass.notes) :
              \E i \in 1..Len(pass.matches) :
                 /\ pass.matches[i].ans /= 0
                 /\ pass.notes[n].item = tree[pass.matches[i].file][pass.matches[i].ans].id
                 /\ pass.notes[n].kind
                       = Rule(TaskOfMatch(pass.matches[i]).result, FALSE)

\* a test passes after the end of the run, and its node is told so on a
\* new run record
C13_Witness ==
    /\ UpdateAfterFinished
    /\ \E n \in 1..Len(pass.notes) : pass.notes[n].kind = "passed"
    /\ openRuns = 1

(***************************************************************************)
(* C14. At every moment at most one run record is open, and it is the one  *)
(* the watcher holds; a request of the user or an event of the process     *)
(* that arrives while a record is open creates no record and tells its     *)
(* states to the open one.                                                 *)
(***************************************************************************)
C14_OneOpenRun ==
    /\ openRuns <= 1
    /\ (openRuns = 1) <=> (run = "open")
    /\ (pass.handler \in {"onFinished", "onTaskUpdate", "runTests"}
            /\ pass.before.run = "open")
          => /\ openRuns <= pass.before.openRuns
             /\ runState = Told(pass.notes, pass.before.runState)

\* the user asks for a run while a run record is open: the items are
\* started on that record
C14_Witness ==
    /\ pass.handler = "runTests"
    /\ pass.before.run = "open"
    /\ pass.notes /= <<>>
    /\ openRuns = 1

(***************************************************************************)
(* C15. After the watcher is disposed no event of the Vitest process that  *)
(* is still delivered changes the state of a node: the handler of an event *)
(* that arrives while the watcher is disposed tells no state to any run    *)
(* record, so the states told before stay and the other nodes stay waiting.*)
(***************************************************************************)
C15_Original ==
    (/\ pass.handler \in {"onCollected", "onTaskUpdate", "onFinished"}
     /\ ~pass.before.isWatching)
        => /\ pass.notes = <<>>
           /\ runState = pass.before.runState
           /\ openRuns = pass.before.openRuns


\* the ids of the tasks an event of files carries, with their results
RECURSIVE CarriedBy(_, _)
CarriedBy(map, files) ==
    IF Len(files) = 0 THEN map
    ELSE CarriedBy(Carried(map, Head(files).filepath, FileTask(Head(files))), Tail(files))

\* the last event handled was a taskUpdate naming no task of the id map
DroppedUpdate(p) ==
    /\ p.handler = "onTaskUpdate"
    /\ p.event.malformed = FALSE
    /\ \A k \in 1..Len(p.event.packs) :
           p.event.packs[k].id \notin DOMAIN p.before.state.idMap

(***************************************************************************)
(* C16. A taskUpdate whose ids are not in the id map when it arrives       *)
(* changes nothing of the state manager (id map, file map, results), and   *)
(* it is not replayed: after every collected event each task the event     *)
(* introduces holds the result the event carries, whatever updates were    *)
(* dropped before.                                                         *)
(***************************************************************************)
C16_DroppedNotReplayed ==
    /\ DroppedUpdate(pass) => state = pass.before.state
    /\ (pass.handler = "onCollected" /\ ~pass.thrown)
          => \A id \in DOMAIN CarriedBy(<<>>, pass.event.files) :
                 /\ id \in DOMAIN state.idMap
                 /\ ResultOf(state, id) = CarriedBy(<<>>, pass.event.files)[id]

\* a taskUpdate for a task not collected yet was dropped, and the collected
\* event that follows introduces the task with another result
C16_Witness ==
    /\ pass.handler = "onCollected"
    /\ ~pass.thrown
    /\ pass.before.handler = "onTaskUpdate"
    /\ pass.before.event.malformed = FALSE
    /\ \E k \in 1..Len(pass.before.event.packs) :
          /\ pass.before.event.packs[k].id \notin DOMAIN pass.before.state.idMap
          /\ pass.before.event.packs[k].id \in DOMAIN state.idMap
          /\ ResultOf(state, pass.before.event.packs[k].id)
                 /= pass.before.event.packs[k].result


\* the packs of the taskUpdate handled last that name the task id of a file
\* object: the id map holds the id and gives that object
PacksOf(id, object) ==
    {k \in 1..Len(pass.event.packs) :
        /\ pass.event.packs[k].id = id
        /\ id \in DOMAIN pass.before.state.idMap
        /\ pass.before.state.idMap[id].file = object}

LastOf(ks) == CHOOSE k \in ks : \A j \in ks : j <= k

(***************************************************************************)
(* C17. A taskUpdate for an id of the id map sets the result of that task  *)
(* to exactly the result of the update, no field of the earlier result     *)
(* remaining, and changes nothing else: the id map and the file map keep   *)
(* their keys and entries, every task keeps its name, type and children,   *)
(* and the result of a task the update does not name is the one it had.    *)
(***************************************************************************)
C17_UpdateReplacesResult ==
    (pass.handler = "onTaskUpdate" /\ ~pass.thrown) =>
        /\ state.idMap = pass.before.state.idMap
        /\ state.filesMap = pass.before.state.filesMap
        /\ state.keys = pass.before.state.keys
        /\ Len(state.objects) = Len(pass.before.state.objects)
        /\ \A o \in 1..Len(state.objects) :
              /\ state.objects[o].file = pass.before.state.objects[o].file
              /\ state.objects[o].logs = pass.before.state.objects[o].logs
              /\ DOMAIN state.objects[o].results
                     = DOMAIN pass.before.state.objects[o].results
              /\ \A id \in DOMAIN state.objects[o].results :
                    state.objects[o].results[id] =
                        IF PacksOf(id, o) = {}
                        THEN pass.before.state.objects[o].results[id]
                        ELSE pass.event.packs[LastOf(PacksOf(id, o))].result

\* a task that had failed with an error is updated to a result without error
C17_Witness ==
    /\ pass.handler = "onTaskUpdate"
    /\ ~pass.thrown
    /\ \E k \in 1..Len(pass.event.packs) :
          /\ pass.event.packs[k].id \in DOMAIN pass.before.state.idMap
          /\ ResultOf(pass.before.state, pass.event.packs[k].id).error /= <<>>
          /\ pass.event.packs[k].result.error = <<>>
          /\ ResultOf(state, pass.event.packs[k].id) = pass.event.packs[k].result


\* the handler of a collected, taskUpdate or consoleLog event that cannot be
\* read has run
Malformed ==
    /\ pass.handler \in {"onCollected", "onTaskUpdate", "onUserConsoleLog"}
    /\ pass.event.malformed

(***************************************************************************)
(* C18. As claimed: the error raised while a malformed collected,          *)
(* taskUpdate or consoleLog event is ingested is added to the set of       *)
(* unhandled errors of the state manager and does not leave the handler.   *)
(***************************************************************************)
C18_Original ==
    Malformed =>
        /\ ~pass.thrown
        /\ state.errorsSet /= pass.before.state.errorsSet


(***************************************************************************)
(* Reading the calls of the VitestWatcher.                                 *)
(***************************************************************************)
\* the last step is a call of scheduleRerun, or the end of one that waited,
\* and no tracking was on from the call to its end
CalledOff == rerun.step \in {"scheduleRerun", "astCollect"} /\ rerun.off

(***************************************************************************)
(* C19. While tracking is off, never begun or stopped, a file change runs  *)
(* no test: when the file that changed is no changed test the sets of      *)
(* changed tests and of invalidated files are empty when the call is       *)
(* delegated; when it is one, the name pattern is the pattern that only    *)
(* collects when the call is delegated; and rerunTriggered is left as it   *)
(* was.                                                                    *)
(***************************************************************************)
C19_OffRunsNothing ==
    CalledOff =>
        /\ ~watcher.enabled
        /\ watcher.rerunTriggered = rerun.watcher.rerunTriggered
        /\ ~rerun.isTestFileTrigger =>
              /\ rerun.delegated
              /\ rerun.handed.files = rerun.files
              /\ rerun.handed.changedTests = {}
              /\ rerun.handed.invalidates = {}
        /\ rerun.isTestFileTrigger =>
              /\ ctx.testNamePattern = COLLECT_NAME_PATTERN
              /\ rerun.delegated =>
                    rerun.handed.testNamePattern = COLLECT_NAME_PATTERN

\* tracking of a list with a name pattern was stopped, a rerun had been
\* marked, and a test file of the list changes: the call is delegated with
\* the pattern that only collects
C19_Witness ==
    /\ CalledOff
    /\ rerun.isTestFileTrigger
    /\ rerun.delegated
    /\ Len(watcher.files) > 0
    /\ watcher.testNamePattern = "adds"
    /\ isTestFileWatched(watcher, Head(rerun.files))
    /\ rerun.handed.testNamePattern = COLLECT_NAME_PATTERN


\* a test file matches a watched entry: the same path, or an entry that ends
\* with the separator and begins the path
Matches(entry, file) ==
    \/ entry = file
    \/ /\ Len(entry) > 0
       /\ Len(entry) <= Len(file)
       /\ SubSeq(entry, Len(entry), Len(entry)) = "/"
       /\ SubSeq(file, 1, Len(entry)) = entry

\* every changed test handed to the scheduler of Vitest matches a watched entry
HandedWatched ==
    \A file \in rerun.handed.changedTests :
        \E i \in 1..Len(rerun.watcher.files) : Matches(rerun.watcher.files[i], file)

\* the last step is a call made while a list of files that is not empty is tracked
CalledWithList ==
    /\ rerun.step = "scheduleRerun"
    /\ rerun.watcher.enabled
    /\ ~rerun.watcher.watchEveryFile
    /\ Len(rerun.watcher.files) > 0

(***************************************************************************)
(* C20. As claimed: while a list of files is tracked, after every file     *)
(* change, of a test file or of a source file, every test left in the set  *)
(* of changed tests handed to the scheduler of Vitest matches a watched    *)
(* entry.                                                                  *)
(***************************************************************************)
C20_Original == CalledWithList => HandedWatched

(***************************************************************************)
(* C20, amended.  While a list of files is tracked, after the change of a  *)
(* file that is not one of the changed tests every test left in the set    *)
(* handed to the scheduler of Vitest matches a watched entry; after the    *)
(* change of a changed test the set is handed over as it is.               *)
(***************************************************************************)
C20_Amended ==
    CalledWithList =>
        /\ rerun.delegated
        /\ ~rerun.isTestFileTrigger =>
              /\ HandedWatched
              /\ \A file \in rerun.changedTests \ rerun.handed.changedTests :
                    \A i \in 1..Len(rerun.watcher.files) :
                        ~Matches(rerun.watcher.files[i], file)
        /\ rerun.isTestFileTrigger => rerun.handed.changedTests = rerun.changedTests

\* a source file changes while a directory is tracked: of the changed tests
\* the one of the directory is handed over, the other is not
C20_Witness ==
    /\ CalledWithList
    /\ ~rerun.isTestFileTrigger
    /\ rerun.handed.changedTests /= {}
    /\ rerun.handed.changedTests /= rerun.changedTests


\* the last step is a call made while every file is tracked
CalledEveryFile ==
    /\ rerun.step = "scheduleRerun"
    /\ rerun.watcher.enabled
    /\ rerun.watcher.watchEveryFile

(***************************************************************************)
(* C21. While every file is tracked, every file change is delegated to the *)
(* scheduler of Vitest with the file that changed, with the set of changed *)
(* tests as Vitest left it, and with the pattern override set to the name  *)
(* pattern the watcher holds at that time; rerunTriggered is set.          *)
(***************************************************************************)
C21_EveryFileDelegates ==
    CalledEveryFile =>
        /\ rerun.delegated
        /\ rerun.handed.files = rerun.files
        /\ rerun.handed.changedTests = rerun.changedTests
        /\ ctx.changedTests = rerun.changedTests
        /\ rerun.handed.testNamePattern = rerun.watcher.testNamePattern
        /\ ctx.testNamePattern = rerun.watcher.testNamePattern
        /\ watcher.rerunTriggered

\* every file is tracked and a source file changes with a changed test that no
\* list names: the test is handed over, and rerunTriggered was not set before
C21_Witness ==
    /\ CalledEveryFile
    /\ ~rerun.isTestFileTrigger
    /\ rerun.handed.changedTests /= {}
    /\ ~rerun.watcher.rerunTriggered
    /\ watcher.rerunTriggered


\* the n-th file change was told to the VitestWatcher, and Vitest attributes
\* it to the file of the continuous run
ChangedFor(n) ==
    /\ rerun.step = "scheduleRerun"
    /\ ctx.calls = n
    /\ Continuous \in rerun.changedTests

\* the case nodes of the file of the continuous run
CasesOf(uri) == {n \in 1..Len(tree[uri]) : tree[uri][n].kind = "it"}

\* a run that answers the n-th file change has ended, and every case node of
\* the file was told last the state of the result the run reported
ShownFor(n) ==
    /\ pass.handler = "onFinished"
    /\ pass.event.call >= n
    /\ run = "none"
    /\ ~pass.error
    /\ CasesOf(UriFile(Continuous)) /= {}
    /\ \A c \in CasesOf(UriFile(Continuous)) :
          LET id == tree[UriFile(Continuous)][c].id
          IN  /\ id \in DOMAIN runState
              /\ Len(runState[id]) > 0
              /\ runState[id][Len(runState[id])] \in {"passed", "failed"}
              /\ runState[id][Len(runState[id])]
                    = Rule(pass.event.files[1].tasks[1].result, TRUE)

C23_OneFileNode ==
    /\ DOMAIN items \subseteq Files
    /\ \A uri \in DOMAIN items : items[uri] = 1
    /\ \A uri \in Files : (resolved[uri] \/ tree[uri] /= <<>>) => uri \in DOMAIN items

\* a taskUpdate is synchronized for a file that the collected event before it
\* had discovered: the file item was asked for again, and is the one created
C23_Witness ==
    /\ pass.handler = "onTaskUpdate"
    /\ pass.notes /= <<>>
    /\ pass.before.handler = "onCollected"
    /\ DOMAIN items = Files
    /\ items[UriFile("/f1")] = 1


\* the ids of the id map that name the file or a node of the file
IdsOfFile(uri) ==
    {id \in idMap : id = uri \/ (Len(id) > Len(uri) + 1
                                 /\ SubSeq(id, 1, Len(uri) + 1) = uri \o "/")}

(***************************************************************************)
(* C24. As claimed: after a file was applied again, a node whose id the    *)
(* new parse does not give is neither in the tree of the file nor in the   *)
(* id map of the controller: for the file the id map holds exactly the id  *)
(* of the file and the ids of the last successful parse.                   *)
(***************************************************************************)
C24_Original ==
    Reapplied =>
        /\ NodeIds(tree[hist.file]) \subseteq idMap
        /\ \A id \in NodeIds(hist.before[hist.file]) \ NodeIds(tree[hist.file]) :
              id \notin idMap
        /\ IdsOfFile(hist.file) = {hist.file} \cup NodeIds(tree[hist.file])

\* the part of the claim the code keeps: the tree of the file holds exactly
\* the nodes of the new parse, and the id map still holds the ids dropped
DroppedStaysRegistered ==
    /\ Reapplied
    /\ \E id \in NodeIds(hist.before[hist.file]) \ NodeIds(tree[hist.file]) : id \in idMap


(***************************************************************************)
(* A breach of the contract of the extractor: a block of the list has a    *)
(* type that is neither "describe" nor "it".                               *)
(***************************************************************************)
\* a type of ParsedNodeTypes that names neither a suite nor a case
Unexpected == "expect"

\* the contents of a file with one of its blocks reported with that type
Retyped(content) ==
    {[content EXCEPT !.calls = (@ \ {c}) \cup {[c EXCEPT !.type = Unexpected]}] :
        c \in content.calls}

\* the file is saved and the extractor reports one of its blocks with a type
\* that is neither a suite nor a case
Retype(f) ==
    /\ UNCHANGED <<schedVars, start, partVars>>
    /\ f \in Editable
    /\ edits < MaxEdits
    /\ \E c \in Retyped(disk[f]) : disk' = [disk EXCEPT ![f] = c]
    /\ edits' = edits + 1
    /\ UNCHANGED <<items, resolved, tree, idMap, lastArr, hist>>
    /\ UNCHANGED watchVars

BreachNext ==
    \/ \E f \in Editable : Retype(f)
    \/ \E f \in Files : OnDidChange(f)
    \/ \E f \in Files, forceReload \in BOOLEAN : DiscoverTestFromPath(f, forceReload)

SpecBreach == TreeInit /\ [][BreachNext]_vars

\* the last apply was aborted by a block of an unexpected type
Aborted == hist.outcome = "thrown"

(***************************************************************************)
(* C25. As claimed: when apply meets a block whose type is neither suite   *)
(* nor case, it raises an error and leaves the state as before the call:   *)
(* the children of the file node, the nodes of the other files and the id  *)
(* map of the controller are unchanged, no id created by the aborted apply *)
(* staying registered.                                                     *)
(***************************************************************************)
C25_Original ==
    Aborted =>
        /\ tree = hist.before
        /\ idMap = hist.idMapBefore

\* the part of the claim the code keeps: an aborted apply changes no tree
AbortKeepsTrees == Aborted => tree = hist.before

\* an aborted apply after a successful one of the same file leaves an id
\* registered that no node of any tree has
AbortLeavesId ==
    /\ Aborted
    /\ hist.before[hist.file] /= <<>>
    /\ \E id \in idMap \ hist.idMapBefore : id /= hist.file


(***************************************************************************)
(* The start-up handshake with the worker: waitForWsResolvedMeta and       *)
(* startWebsocketServer wait for the worker on a socket of a server,       *)
(* createChildVitestProcess on the channel of a child process.  `start`    *)
(* holds the promise given to the caller, the listeners attached to the    *)
(* socket (or the child) and to the server, and the events delivered.      *)
(***************************************************************************)
Handshakes == {"waitForWsResolvedMeta", "startWebsocketServer", "createChildVitestProcess"}

\* what the worker sends: a debug, ready or error message, or a text that is
\* no message
WorkerEvents == {"debug", "ready", "error", "malformed"}

\* new Promise(...): the listeners attached before the worker connects
NewStart(fn) ==
    [fn |-> fn, promise |-> "pending", connected |-> FALSE, open |-> FALSE,
     wsOn |-> IF fn = "createChildVitestProcess" THEN {"error", "message"} ELSE {},
     wssOn |-> IF fn = "waitForWsResolvedMeta" THEN {"error", "close"}
               ELSE IF fn = "startWebsocketServer" THEN {"error"}
               ELSE {},
     log |-> <<>>]

\* resolve and reject: a promise settles once
resolve(s) == IF s.promise = "pending" THEN [s EXCEPT !.promise = "resolved"] ELSE s

reject(s) == IF s.promise = "pending" THEN [s EXCEPT !.promise = "rejected"] ELSE s

\* onMessage of waitForWsResolvedMeta, ready of startWebsocketServer:
\* JSON.parse throws on a text that is no message; after any message that
\* parses, the three listeners of the socket are removed
onMessage(s, m) ==
    IF m = "malformed" THEN s
    ELSE [(IF m = "ready" THEN resolve(s)
           ELSE IF m = "error" THEN reject(s)
           ELSE s) EXCEPT !.wsOn = {}]

\* ready of createChildVitestProcess: the listener is removed by a ready or
\* an error message only
ready(s, m) ==
    IF m = "ready" THEN [resolve(s) EXCEPT !.wsOn = @ \ {"message"}]
    ELSE IF m = "error" THEN [reject(s) EXCEPT !.wsOn = @ \ {"message"}]
    ELSE s

\* onError of the socket; the listener of the child for 'error'
onError(s) ==
    IF s.fn = "createChildVitestProcess" THEN reject(s)
    ELSE [reject(s) EXCEPT !.wsOn = {}]

\* onExit of the socket
onExit(s) == reject(s)

Logged(s, e) == [s EXCEPT !.log = Append(@, e)]

\* a handshake is started
StartInit ==
    /\ watcher = NewWatcher
    /\ ctx = NewCtx
    /\ rerun = NoRerun
    /\ start \in {NewStart(fn) : fn \in Handshakes}
    /\ Apart
    /\ disk = [f \in Files |-> FixedContent]
    /\ items = <<>>
    /\ resolved = [f \in Files |-> FALSE]
    /\ tree = [f \in Files |-> <<>>]
    /\ idMap = {}
    /\ lastArr = [f \in Files |-> <<>>]
    /\ edits = 0
    /\ hist = NoHist
    /\ inbox = <<>>
    /\ state = NoState
    /\ run = "none"
    /\ isRunning = FALSE
    /\ testStatus = [passed |-> 0, failed |-> 0, skipped |-> 0]
    /\ pass = NoPass
    /\ vitestState = "none"
    /\ isWatching = FALSE
    /\ openRuns = 0
    /\ runState = <<>>
    /\ steps = 0

Quiet == UNCHANGED <<treeVars, watchVars, schedVars, partVars>>

\* wss 'connection' (once), or 'spawn' of the child: the listeners of the
\* socket are attached and the init message is sent
Connection ==
    /\ start.fn \in Handshakes
    /\ ~start.connected
    /\ Len(start.log) < MaxSteps
    /\ start' = Logged(
         [start EXCEPT !.connected = TRUE, !.open = TRUE,
                       !.wsOn = IF start.fn = "createChildVitestProcess" THEN @
                                ELSE {"error", "message", "close"},
                       !.wssOn = IF start.fn = "waitForWsResolvedMeta"
                                 THEN @ \ {"error"} ELSE @],
         "connection")
    /\ Quiet

\* ws 'message', or 'message' of the child
WorkerMessage(m) ==
    /\ start.connected /\ start.open
    /\ Len(start.log) < MaxSteps
    /\ start' = Logged(
         IF "message" \notin start.wsOn THEN start
         ELSE IF start.fn = "createChildVitestProcess" THEN ready(start, m)
         ELSE onMessage(start, m),
         m)
    /\ Quiet

\* ws 'error', or 'error' of the child (which may fail to spawn)
SocketError ==
    /\ start.fn \in Handshakes
    /\ start.open \/ (start.fn = "createChildVitestProcess" /\ ~start.connected)
    /\ Len(start.log) < MaxSteps
    /\ start' = Logged(IF "error" \in start.wsOn THEN onError(start) ELSE start,
                       "socket error")
    /\ Quiet

\* ws 'close', or the exit of the child
SocketClose ==
    /\ start.connected /\ start.open
    /\ Len(start.log) < MaxSteps
    /\ start' = Logged(
         [(IF "close" \in start.wsOn THEN onExit(start) ELSE start) EXCEPT !.open = FALSE],
         "socket close")
    /\ Quiet

\* wss 'error': onUnexpectedError
ServerError ==
    /\ start.fn \in Handshakes \ {"createChildVitestProcess"}
    /\ Len(start.log) < MaxSteps
    /\ start' = Logged(IF "error" \in start.wssOn THEN reject(start) ELSE start,
                       "server error")
    /\ Quiet

\* wss 'close' (once): onUnexpectedExit
ServerClose ==
    /\ start.fn \in Handshakes \ {"createChildVitestProcess"}
    /\ "server close" \notin {start.log[i] : i \in DOMAIN start.log}
    /\ Len(start.log) < MaxSteps
    /\ start' = Logged(
         [(IF "close" \in start.wssOn THEN reject(start) ELSE start)
             EXCEPT !.wssOn = @ \ {"close"}, !.open = FALSE],
         "server close")
    /\ Quiet

StartNext ==
    \/ Connection
    \/ \E m \in WorkerEvents : WorkerMessage(m)
    \/ SocketError
    \/ SocketClose
    \/ ServerError
    \/ ServerClose

SpecStart == StartInit /\ [][StartNext]_vars

\* the events of the socket after which the claim says the promise is settled
Settling == {"ready", "error", "malformed", "socket error", "socket close"}

\* the first event of the handshake that is no debug message
FirstEvent ==
    LET after == SelectSeq(start.log, LAMBDA e : e \notin {"connection", "debug"})
    IN  IF Len(after) = 0 THEN "none" ELSE after[1]

(***************************************************************************)
(* C26. As claimed: the promise of the handshake always settles: it        *)
(* resolves once the worker sends ready, and it rejects when the worker    *)
(* sends an error message, the socket errors or closes, or a message is    *)
(* malformed, whatever debug messages came first; it never stays pending   *)
(* after such an event.                                                    *)
(***************************************************************************)
C26_Original ==
    /\ FirstEvent = "ready" => start.promise = "resolved"
    /\ FirstEvent \in Settling \ {"ready"} => start.promise = "rejected"

\* without a debug message and with messages that parse, the promise of the
\* handshakes over a socket settles as claimed
SettlesWithoutDebug ==
    (/\ start.fn \in Handshakes \ {"createChildVitestProcess"}
     /\ \A i \in DOMAIN start.log : start.log[i] \notin {"debug", "malformed"})
    => C26_Original

\* a ready message after a debug message leaves the promise pending
PendingAfterReady ==
    /\ start.fn = "waitForWsResolvedMeta"
    /\ start.log = <<"connection", "debug", "ready">>
    /\ start.promise = "pending"


\* the suites of the block list whose range holds the start of block i
EnclosingSuites(arr, i) ==
    {j \in 1..Len(arr) :
        /\ arr[j].type = "describe"
        /\ StartsBefore(arr[j].start, arr[i].start)
        /\ StartsBefore(arr[i].start, arr[j].end)}

\* the innermost of them: the one that starts last
Innermost(arr, i) ==
    CHOOSE j \in EnclosingSuites(arr, i) :
        \A k \in EnclosingSuites(arr, i) : ~StartsBefore(arr[j].start, arr[k].start)

(***************************************************************************)
(* C27. As claimed: after apply, the parent of every node is the innermost *)
(* suite whose range (start line and column to end line and column) holds  *)
(* the start of the block, and the file node when there is none, also when *)
(* the block starts on the line an enclosing suite starts or ends on.      *)
(***************************************************************************)
C27_Original ==
    hist.outcome = "ok" =>
        LET f == hist.file
            arr == hist.arr
        IN  \A i \in 1..Len(tree[f]) :
                tree[f][i].parent =
                    IF EnclosingSuites(arr, i) = {} THEN f
                    ELSE tree[f][Innermost(arr, i)].id

\* a suite holds the start of a block that starts on the line the suite ends
\* on, and the block is a child of the file node
ChildOnEndLineIsLost ==
    /\ hist.outcome = "ok"
    /\ \E i \in 1..Len(tree[hist.file]) :
          /\ tree[hist.file][i].parent = hist.file
          /\ \E j \in EnclosingSuites(hist.arr, i) :
                hist.arr[j].end.line = hist.arr[i].start.line


\* the matcher calls of the pass of call i that ask for its name and kind
SameAsked(i) ==
    {j \in 1..Len(pass.matches) :
        /\ SamePass(pass.matches[i], pass.matches[j])
        /\ pass.matches[j].name = pass.matches[i].name
        /\ pass.matches[j].type = pass.matches[i].type}

\* the pool the pass of call i started with: the pool of its first call
FirstPool(i) ==
    pass.matches[CHOOSE j \in 1..Len(pass.matches) :
                    /\ SamePass(pass.matches[i], pass.matches[j])
                    /\ \A k \in 1..Len(pass.matches) :
                          SamePass(pass.matches[i], pass.matches[k]) => j <= k].pool

\* the nodes of that pool that have the name and the kind call i asks for,
\* in the order of the pool
NamedAtFirst(i) ==
    SelectSeq(FirstPool(i),
              LAMBDA n : /\ KindMatches(pass.matches[i].type, tree[pass.matches[i].file][n])
                         /\ pattern(tree[pass.matches[i].file][n]) = pass.matches[i].name)

(***************************************************************************)
(* C28. When k tasks of one pass have the same name and kind and the pool  *)
(* holds at least k nodes of that kind and name, the exact loop matches    *)
(* them to k distinct nodes in the order of the pool, the i-th task to the *)
(* i-th such node, and each matched node is removed from the pool.         *)
(***************************************************************************)
C28_ExactInPoolOrder ==
    \A i \in 1..Len(pass.matches) :
        LET r == pass.matches[i]
            named == NamedAtFirst(i)
        IN  Len(named) >= Cardinality(SameAsked(i)) =>
                /\ r.phase = "exact"
                /\ r.ans = named[Cardinality({j \in SameAsked(i) : j <= i})]
                /\ r.ans \in PoolOf(r)
                /\ r.left = SelectSeq(r.pool, LAMBDA n : n /= r.ans)
                /\ \A j \in SameAsked(i) : j /= i => pass.matches[j].ans /= r.ans

\* the last of the tasks of one name and kind of a pass got the node of that
\* name the pool holds at the same rank, and every matched node left the pool
C28_Witness ==
    \E i \in 1..Len(pass.matches) :
        /\ Cardinality(SameAsked(i)) = MaxTasks
        /\ Len(NamedAtFirst(i)) >= MaxTasks
        /\ \A j \in SameAsked(i) : j <= i
        /\ pass.matches[i].phase = "exact"
        /\ pass.matches[i].ans = NamedAtFirst(i)[MaxTasks]
        /\ Len(pass.matches[i].left) = Len(FirstPool(i)) - MaxTasks


\* the nodes of the pool of a matcher call that have the kind it asks for
OfKind(r) == {n \in PoolOf(r) : KindMatches(r.type, tree[r.file][n])}

(***************************************************************************)
(* C29. As claimed: in both loops of matchTask the node returned has the   *)
(* kind asked for, a suite task getting a suite node only and a test task  *)
(* a case node only, and matchTask returns none when the pool holds no     *)
(* candidate of that kind.                                                 *)
(***************************************************************************)
C29_Original ==
    \A i \in 1..Len(pass.matches) :
        LET r == pass.matches[i]
        IN  /\ r.ans /= 0 => r.ans \in OfKind(r)
            /\ OfKind(r) = {} => r.ans = 0

\* the part of the claim the code keeps: the exact loop returns a node of
\* the kind asked for
ExactKeepsKind ==
    \A i \in 1..Len(pass.matches) :
        pass.matches[i].phase = "exact" => pass.matches[i].ans \in OfKind(pass.matches[i])

\* a test task got a suite node from the approximate search, and the run
\* was told the state of the test for the item of the suite
TestToldOnSuite ==
    \E i \in 1..Len(pass.matches) :
        LET r == pass.matches[i]
        IN  /\ r.type = "test" /\ r.phase = "fuzzy"
            /\ tree[r.file][r.ans].kind = "describe"
            /\ \E n \in 1..Len(pass.notes) :
                  /\ pass.notes[n].file = r.file /\ pass.notes[n].task = r.task
                  /\ pass.notes[n].item = tree[r.file][r.ans].id


\* the matcher calls that matched the runtime parent of the task of call i
ParentCalls(i) ==
    {j \in 1..Len(pass.matches) :
        /\ pass.matches[j].file = pass.matches[i].file
        /\ pass.matches[j].task = pass.matches[i].call}

\* the node matched to the runtime parent of the task of call i: the file
\* node for a task of the file, "" when the parent got none
ParentNode(i) ==
    LET r == pass.matches[i]
    IN  IF r.call = <<>> THEN r.file
        ELSE IF \E j \in ParentCalls(i) : pass.matches[j].ans /= 0
        THEN tree[r.file][pass.matches[CHOOSE j \in ParentCalls(i) : TRUE].ans].id
        ELSE ""

\* the children of a node of the file of call i, in the order of the tree
ChildNodes(i, id) ==
    SelectSeq([n \in 1..Len(tree[pass.matches[i].file]) |-> n],
              LAMBDA n : tree[pass.matches[i].file][n].parent = id)

(***************************************************************************)
(* C30. A runtime task is only ever matched to a child of the node matched *)
(* to its runtime parent (of the file node for a task of the file): the    *)
(* pool of a level starts as exactly the children of that node, whatever   *)
(* other calls of sync removed, and no node of another subtree is in it.   *)
(***************************************************************************)
C30_PoolIsChildren ==
    \A i \in 1..Len(pass.matches) :
        LET r == pass.matches[i]
        IN  /\ Cardinality(ParentCalls(i)) = (IF r.call = <<>> THEN 0 ELSE 1)
            /\ ParentNode(i) /= ""
            /\ FirstPool(i) = ChildNodes(i, ParentNode(i))
            /\ \A n \in PoolOf(r) : tree[r.file][n].parent = ParentNode(i)
            /\ r.ans /= 0 => tree[r.file][r.ans].parent = ParentNode(i)

\* a task of a suite was matched by name to a child of the node of the suite
C30_Witness ==
    \E i \in 1..Len(pass.matches) :
        LET r == pass.matches[i]
        IN  /\ r.call /= <<>>
            /\ r.phase = "exact"
            /\ ParentNode(i) \notin {"", r.file}
            /\ tree[r.file][r.ans].parent = ParentNode(i)

\* a task of a suite got no node although a node of its name and kind is in
\* the file, outside the suite matched to its parent
SiblingIsNoCandidate ==
    \E i \in 1..Len(pass.matches) :
        LET r == pass.matches[i]
        IN  /\ r.call /= <<>>
            /\ r.ans = 0
            /\ \E n \in 1..Len(tree[r.file]) :
                  /\ KindMatches(r.type, tree[r.file][n])
                  /\ pattern(tree[r.file][n]) = r.name
                  /\ tree[r.file][n].parent /= ParentNode(i)


\* the nodes of the suites of a file
SuiteItems(uri) == {tree[uri][n].id : n \in {k \in 1..Len(tree[uri]) : tree[uri][k].kind = "describe"}}

(***************************************************************************)
(* C31. As claimed: no notification of a run state (started, passed,       *)
(* failed, skipped) is issued for the node of a suite, neither by a pass   *)
(* of sync nor by a request of a run: suites are only recursed into.       *)
(***************************************************************************)
C31_Original ==
    \A n \in 1..Len(pass.notes) : pass.notes[n].item \notin SuiteItems(pass.notes[n].file)


(***************************************************************************)
(* collectFiles with a file object the state manager holds already, after  *)
(* a task was pushed to its tasks.                                         *)
(***************************************************************************)
\* file.tasks.push(task) on a file object of the heap
Grown(fo, task) ==
    [file |-> [fo.file EXCEPT !.tasks = Append(@, task)],
     results |-> (TaskId(fo.file.filepath, Len(fo.file.tasks) + 1) :> task.result)
                 @@ fo.results,
     logs |-> (TaskId(fo.file.filepath, Len(fo.file.tasks) + 1) :> 0) @@ fo.logs]

\* a test is added to a file object and collectFiles([file]) is called with it
Recollect(object, task) ==
    /\ UNCHANGED <<schedVars, start, partVars>>
    /\ steps < MaxSteps
    /\ inbox = <<>>
    /\ object \in 1..Len(state.objects)
    /\ Len(state.objects[object].file.tasks) < MaxTasks
    /\ steps' = steps + 1
    /\ state' = collectObject([state EXCEPT !.objects[object] = Grown(@, task)], object)
    /\ pass' = [NoPass EXCEPT !.handler = "collectFiles",
                              !.event = [type |-> "collected", object |-> object],
                              !.before = Before]
    /\ UNCHANGED treeVars
    /\ UNCHANGED <<inbox, run, isRunning, testStatus, vitestState, isWatching,
                   openRuns, runState>>

CollectNext ==
    \/ \E event \in CollectedEvents \cup TaskUpdateEvents : Deliver(event)
    \/ OnCollected
    \/ OnTaskUpdate
    \/ \E object \in 1..MaxSteps, r \in {NoResult, Result("pass", <<>>)} :
          Recollect(object, Test("adds [1]", r))

SpecCollect == WatchInit /\ [][CollectNext]_vars

\* the file objects the last call of collectFiles was given
CollectedObjects ==
    IF pass.handler = "collectFiles" THEN <<pass.event.object>>
    ELSE IF pass.handler = "onCollected" /\ ~pass.thrown
    THEN [i \in 1..Len(pass.event.files) |-> Len(pass.before.state.objects) + i]
    ELSE <<>>

\* the ids of a file object and of the tasks below it
IdsBelow(object) ==
    DOMAIN Carried(<<>>, state.objects[object].file.filepath,
                   FileTask(state.objects[object].file))

(***************************************************************************)
(* C32. As claimed: after every collected(files), filesMap maps the path   *)
(* of each collected file to that file and idMap maps the id of the file   *)
(* and of every task below it to that task, also when the same file object *)
(* is collected again after tasks were added below it.                     *)
(***************************************************************************)
C32_Original ==
    \A i \in 1..Len(CollectedObjects) :
        LET object == CollectedObjects[i]
        IN  /\ state.filesMap[state.objects[object].file.filepath] = object
            /\ \A id \in IdsBelow(object) :
                  /\ id \in DOMAIN state.idMap
                  /\ state.idMap[id].file = object

\* the part of the claim the code keeps: the files of an event, which are
\* new objects, are registered with every task below them
NewObjectsRegistered == pass.handler = "onCollected" => C32_Original

\* a file object was collected again with a test added, and the id of the
\* test is not in the id map
AddedTaskUnknown ==
    /\ pass.handler = "collectFiles"
    /\ \E id \in IdsBelow(pass.event.object) : id \notin DOMAIN state.idMap


\* the last step is a call that filtered the changed tests by isTestFileWatched
Filtered ==
    /\ rerun.step = "scheduleRerun"
    /\ rerun.watcher.enabled
    /\ ~rerun.watcher.watchEveryFile
    /\ ~rerun.isTestFileTrigger

\* the changed tests isTestFileWatched answered true for in the last call
Watched == rerun.handed.changedTests

(***************************************************************************)
(* C33. isTestFileWatched(f) is true exactly when the watched list is not  *)
(* empty and an entry equals f, or an entry ends with '/' and is a prefix  *)
(* of f: an entry without the separator at its end never matches a file    *)
(* beneath it, and an empty list matches nothing.                          *)
(***************************************************************************)
C33_WatchedExactly ==
    Filtered =>
        /\ \A f \in rerun.changedTests :
              f \in Watched <=>
                  /\ Len(rerun.watcher.files) > 0
                  /\ \E i \in 1..Len(rerun.watcher.files) : Matches(rerun.watcher.files[i], f)
        /\ rerun.watcher.files = <<>> => Watched = {}
        /\ rerun.watcher.files = <<"/a">> => Watched = {}
        /\ rerun.watcher.files = <<"/a/x">> => Watched = rerun.changedTests \cap {"/a/x"}
        /\ rerun.watcher.files = <<"/a/">> => Watched = rerun.changedTests \cap {"/a/x", "/a/xy"}

\* while the directory is tracked without the separator, a source file
\* changed with a test of the directory among the changed tests, and the
\* test was not watched
C33_Witness ==
    /\ Filtered
    /\ rerun.watcher.files = <<"/a">>
    /\ "/a/x" \in rerun.changedTests
    /\ Watched = {}


\* the last step is a call for the change of a file that is no test file,
\* made while a list of files is tracked
SourceChanged ==
    /\ rerun.step = "scheduleRerun"
    /\ rerun.watcher.enabled
    /\ ~rerun.watcher.watchEveryFile
    /\ Head(rerun.files) \notin TestFiles

(***************************************************************************)
(* C34. While a list of files is tracked, after the change of a file that  *)
(* is no test file the set of changed tests is exactly the watched part of *)
(* the set before the call: no file is added, no watched changed test is   *)
(* dropped, and the scheduler of Vitest is handed no test to run when the  *)
(* change is attributed to no watched test.                                *)
(***************************************************************************)
C34_SourceChangeFilters ==
    SourceChanged =>
        /\ rerun.delegated
        /\ ctx.changedTests = rerun.handed.changedTests
        /\ rerun.handed.changedTests \subseteq rerun.changedTests
        /\ \A f \in rerun.changedTests :
              f \in rerun.handed.changedTests <=> isTestFileWatched(rerun.watcher, f)
        /\ (\A f \in rerun.changedTests : ~isTestFileWatched(rerun.watcher, f))
              => rerun.handed.changedTests = {}

\* a source file changed while '/a/x' is tracked and the change is attributed
\* to '/b/y' only: the scheduler is handed no test
C34_Witness ==
    /\ SourceChanged
    /\ rerun.watcher.files = <<"/a/x">>
    /\ rerun.changedTests = {"/b/y"}
    /\ ctx.changedTests = {}

(***************************************************************************)
(* The end of a run that is open: a task update of the run has created the *)
(* run record, and the finished event of the run arrives.                  *)
(***************************************************************************)
EndInit ==
    /\ Idle
    /\ disk \in {d \in [Files -> Contents] :
                   \A f \in Files : /\ d[f].ok
                                    /\ Compact(d[f])
                                    /\ f \notin Editable => d[f] = FixedContent}
    /\ items = <<>>
    /\ resolved = [f \in Files |-> FALSE]
    /\ tree = [f \in Files |-> <<>>]
    /\ idMap = {}
    /\ lastArr = [f \in Files |-> <<>>]
    /\ edits = 0
    /\ hist = NoHist
    /\ \E event \in FinishedEvents :
          /\ inbox = <<event>>
          /\ state = collectFiles(NoState, event.files)
    /\ run = "open"
    /\ isRunning = TRUE
    /\ testStatus = [passed |-> 0, failed |-> 0, skipped |-> 0]
    /\ pass = NoPass
    /\ vitestState = "loading"
    /\ isWatching = TRUE
    /\ openRuns = 1
    /\ runState = <<>>
    /\ steps = 0

EndNext == OnFinished

SpecEnd == EndInit /\ [][EndNext]_vars

\* the handler of a finished event has acted on a run record that was open
EndOfOpenRun == pass.handler = "onFinished" /\ pass.before.run = "open"

(***************************************************************************)
(* C35. As claimed: whenever a finished event is processed while a run     *)
(* record is open, the run record is ended and cleared and the status      *)
(* counts are those of the tasks of the id map, whatever files the event   *)
(* holds.                                                                  *)
(***************************************************************************)
C35_Original ==
    EndOfOpenRun =>
        /\ run = "none"
        /\ openRuns = pass.before.openRuns - 1
        /\ testStatus = updateStatus(state)

\* what the handler does: the run is ended exactly when no task of the event
\* was left without a node, and stays open with the old counts otherwise
EndsUnlessUnmatched ==
    EndOfOpenRun =>
        IF pass.error
        THEN /\ run = "open"
             /\ openRuns = pass.before.openRuns
             /\ testStatus = [passed |-> 0, failed |-> 0, skipped |-> 0]
        ELSE /\ run = "none"
             /\ openRuns = pass.before.openRuns - 1
             /\ testStatus = updateStatus(state)

\* a finished event with a task no node matches leaves the run open
RunLeftOpen ==
    /\ EndOfOpenRun
    /\ pass.error
    /\ \E i \in 1..Len(pass.matches) : pass.matches[i].ans = 0
    /\ run = "open"
    /\ openRuns = 1

\* the file objects filesMap holds under their paths
CurrentObjects == {state.filesMap[p] : p \in DOMAIN state.filesMap}

\* the entries of the id map that are no task below a file of filesMap
StaleIds ==
    {id \in DOMAIN state.idMap :
        \/ state.idMap[id].file \notin CurrentObjects
        \/ id \notin IdsBelow(state.idMap[id].file)}

(***************************************************************************)
(* C36. As claimed: after any sequence of collected and taskUpdate events  *)
(* every task of the id map is a task below a file that filesMap holds     *)
(* under its path, so that the counts of updateStatus are those of the     *)
(* current tasks.                                                          *)
(***************************************************************************)
C36_Original == StaleIds = {}

\* what holds: every entry of the id map is a task below a file object that
\* was collected, current or not
EntriesWereCollected ==
    \A id \in DOMAIN state.idMap :
        /\ state.idMap[id].file \in 1..Len(state.objects)
        /\ id \in IdsBelow(state.idMap[id].file)

\* a file was collected with two tests and then with one: the second test
\* stays in the id map and is counted
StaleTestCounted ==
    /\ pass.handler = "onCollected"
    /\ "/f1_2" \in StaleIds
    /\ state.idMap["/f1_2"].type = "test"
    /\ Len(state.objects[state.filesMap["/f1"]].file.tasks) = 1
    /\ updateStatus(state).skipped = 2

(***************************************************************************)
(* astCollectTests: the calls of it, test, describe and suite of the code  *)
(* of a file become definitions, and the definitions, in the order of      *)
(* their starts, become the tasks of the file.                             *)
(***************************************************************************)
\* the largest number of calls of a code
MaxDefs == 3

\* the property a call is made with: it(...) has none, it.skip(...) has skip
Properties == {"none", "skip", "only", "todo", "skipIf", "runIf", "each"}

Callees == {"it", "describe"}

\* the codes of n calls, as the words of n pairs of brackets: TRUE opens a
\* call and FALSE closes the call opened last
Balance(w, i, j) ==
    Cardinality({k \in i..j : w[k]}) - Cardinality({k \in i..j : ~w[k]})

Words(n) ==
    {w \in [1..(2 * n) -> BOOLEAN] :
        /\ Balance(w, 1, 2 * n) = 0
        /\ \A k \in 1..(2 * n) : Balance(w, 1, k) >= 0}

Opens(w) == {i \in DOMAIN w : w[i]}

\* the end of the call that starts at i
Close(w, i) == CHOOSE j \in DOMAIN w : /\ j > i
                                       /\ Balance(w, i, j) = 0
                                       /\ \A k \in i..(j - 1) : Balance(w, i, k) > 0

Codes(n) ==
    UNION {{{[start |-> i, end |-> Close(w, i), name |-> f[i][1], property |-> f[i][2]] :
                i \in Opens(w)} : f \in [Opens(w) -> Callees \X Properties]} :
           w \in Words(n)}

\* the codes of at most max calls
CodesUpTo(max) == UNION {Codes(n) : n \in 0..max}

\* the visitor of a call: the definition it pushes, or none for each
CallExpression(node) ==
    LET mode == IF node.property = "none" \/ node.property = node.name THEN "run"
                ELSE node.property
    IN  IF mode = "each" THEN {}
        ELSE {[start |-> node.start,
               end |-> node.end,
               type |-> IF node.name = "it" \/ node.name = "test" THEN "test" ELSE "suite",
               mode |-> IF mode = "skipIf" \/ mode = "runIf" THEN "skip" ELSE mode]}

\* walkAst: the definitions of the calls of the code
walkAst(code) == UNION {CallExpression(node) : node \in code}

\* definitions.sort((a, b) => a.start - b.start)
RECURSIVE sortByStart(_)
sortByStart(definitions) ==
    IF definitions = {} THEN <<>>
    ELSE LET first == CHOOSE d \in definitions : \A e \in definitions : d.start <= e.start
         IN  <<first>> \o sortByStart(definitions \ {first})

\* updateLatestSuite(index): the suites that end before the index are left;
\* 0 is the file, which has no suite
RECURSIVE updateLatestSuite(_, _, _)
updateLatestSuite(tasks, lastSuite, index) ==
    IF lastSuite /= 0 /\ tasks[lastSuite].end < index
    THEN updateLatestSuite(tasks, tasks[lastSuite].suite, index)
    ELSE lastSuite

\* let mode = definition.mode; if (latestSuite.mode !== 'run') mode = latestSuite.mode
inherit(declared, suiteMode) == IF suiteMode /= "run" THEN suiteMode ELSE declared

\* the body of definitions.forEach for the i-th definition
defineTask(acc, definitions, i) ==
    LET latestSuite == updateLatestSuite(acc.tasks, acc.lastSuite, definitions[i].start)
        task == [type |-> definitions[i].type,
                 suite |-> latestSuite,
                 mode |-> inherit(definitions[i].mode,
                                  IF latestSuite = 0 THEN "run"
                                  ELSE acc.tasks[latestSuite].mode),
                 start |-> definitions[i].start,
                 end |-> definitions[i].end,
                 definition |-> i]
    IN  [tasks |-> Append(acc.tasks, task),
         lastSuite |-> IF task.type = "suite" THEN Len(acc.tasks) + 1 ELSE latestSuite]

RECURSIVE forEach(_, _, _)
forEach(acc, definitions, i) ==
    IF i > Len(definitions) THEN acc
    ELSE forEach(defineTask(acc, definitions, i), definitions, i + 1)

\* astCollectTests(ctx, filepath) for the code transformRequest returns
astCollectTests(code) ==
    LET definitions == sortByStart(walkAst(code))
    IN  [code |-> code,
         definitions |-> definitions,
         tasks |-> forEach([tasks |-> <<>>, lastSuite |-> 0], definitions, 1).tasks,
         collected |-> TRUE]

\* the watcher, the scheduler and the handshake are as constructed
Rest ==
    /\ watcher = NewWatcher
    /\ ctx = NewCtx
    /\ rerun = NoRerun
    /\ start = NoStart
    /\ disk = [f \in Files |-> FixedContent]
    /\ items = <<>>
    /\ resolved = [f \in Files |-> FALSE]
    /\ tree = [f \in Files |-> <<>>]
    /\ idMap = {}
    /\ lastArr = [f \in Files |-> <<>>]
    /\ edits = 0
    /\ hist = NoHist
    /\ inbox = <<>>
    /\ state = NoState
    /\ run = "none"
    /\ isRunning = FALSE
    /\ testStatus = [passed |-> 0, failed |-> 0, skipped |-> 0]
    /\ pass = NoPass
    /\ vitestState = "none"
    /\ isWatching = FALSE
    /\ openRuns = 0
    /\ runState = <<>>
    /\ steps = 0

\* the worker is about to collect the tests of a file of some code
AstInit ==
    /\ Rest
    /\ ast \in {[NoAst EXCEPT !.code = code] : code \in CodesUpTo(MaxDefs)}
    /\ ext = NoExt
    /\ client = NoClient

\* astCollectTests(ctx, filepath)
AstCollect ==
    /\ ~ast.collected
    /\ ast' = astCollectTests(ast.code)
    /\ UNCHANGED <<treeVars, watchVars, schedVars, start, ext, client>>

AstNext == AstCollect

SpecAst == AstInit /\ [][AstNext]_vars

\* the tasks of the calls made with skip, todo, skipIf or runIf
DeclaredSkipped ==
    {t \in 1..Len(ast.tasks) : ast.definitions[ast.tasks[t].definition].mode \in {"skip", "todo"}}

(***************************************************************************)
(* C37. As claimed: a test or suite declared with skip or todo, or with    *)
(* skipIf or runIf, is not given the mode run or only, whatever the modes  *)
(* of the suites around it.                                                *)
(***************************************************************************)
C37_Original ==
    \A t \in DeclaredSkipped : ast.tasks[t].mode \notin {"run", "only"}

\* what holds: such a task is not given the mode run, and is given the
\* mode only exactly below a suite of the mode only
SkippedUnlessBelowOnly ==
    \A t \in DeclaredSkipped :
        /\ ast.tasks[t].mode /= "run"
        /\ ast.tasks[t].mode = "only"
              <=> /\ ast.tasks[t].suite /= 0
                  /\ ast.tasks[ast.tasks[t].suite].mode = "only"

\* describe.only(() => { it.skip() }): the test is given the mode only
SkipBelowOnly ==
    /\ ast.collected
    /\ \E t \in DeclaredSkipped :
          /\ ast.tasks[t].type = "test"
          /\ ast.definitions[ast.tasks[t].definition].mode = "skip"
          /\ ast.tasks[t].mode = "only"
          /\ ast.tasks[t].suite /= 0
          /\ ast.definitions[ast.tasks[ast.tasks[t].suite].definition].mode = "only"

(***************************************************************************)
(* VitestExtension.defineTestProfiles: the calls made by activate(), by    *)
(* the refresh handler and by the listeners of the workspace run           *)
(* concurrently, each suspended at its awaits.  An api instance is the     *)
(* Vitest process resolveVitestAPI has created: "running", "closing" once  *)
(* dispose() was called on it, "killed" once dispose() has completed.      *)
(***************************************************************************)
\* the largest number of calls of defineTestProfiles
MaxDefines == 2

\* what calls defineTestProfiles after activate()
Triggers == {"refresh", "workspaceFolders", "configuration", "configFile"}

\* the calls that have not returned
InFlight == {c \in 1..Len(ext.calls) : ext.calls[c].pc /= "done"}

\* a call begins: testTree.reset([]) and await resolveVitestPackages(showWarning)
NewCall(trigger) == [trigger |-> trigger, pc |-> "resolveVitestPackages", disposing |-> 0]

\* api.dispose() is called: the listeners are cleared and rpc.close() is awaited
disposeApi(created, api) ==
    IF api = 0 THEN created
    ELSE [created EXCEPT ![api] = IF @ = "running" THEN "closing" ELSE @]

\* rpc.close() has returned: process.kill()
kill(created, api) == IF api = 0 THEN created ELSE [created EXCEPT ![api] = "killed"]

\* extension.activate(): the listeners are registered and
\* await this.defineTestProfiles(true)
ActivateExtension ==
    /\ ~ext.activated
    /\ ext' = [ext EXCEPT !.activated = TRUE, !.calls = <<NewCall("activate")>>]
    /\ UNCHANGED <<treeVars, watchVars, schedVars, start, ast, client>>

\* the refresh handler or a listener of the workspace: this.defineTestProfiles(...)
DefineTestProfiles(trigger) ==
    /\ ext.activated
    /\ Len(ext.calls) < MaxDefines
    /\ ext' = [ext EXCEPT !.calls = Append(@, NewCall(trigger)),
                          !.overlapped = @ \/ InFlight /= {}]
    /\ UNCHANGED <<treeVars, watchVars, schedVars, start, ast, client>>

\* resolveVitestPackages has returned: without a package the api is disposed
\* and the call returns, else await this.api?.dispose()
PackagesResolved(c, found) ==
    /\ c \in 1..Len(ext.calls)
    /\ ext.calls[c].pc = "resolveVitestPackages"
    /\ ext' = [ext EXCEPT !.calls[c].pc = IF found THEN "dispose" ELSE "disposeAndReturn",
                          !.calls[c].disposing = ext.api,
                          !.created = disposeApi(@, ext.api)]
    /\ UNCHANGED <<treeVars, watchVars, schedVars, start, ast, client>>

\* the dispose() awaited has completed: the call returns, or goes on with
\* this.api = await resolveVitestAPI(this.testTree, vitest)
ApiDisposed(c) ==
    /\ c \in 1..Len(ext.calls)
    /\ ext.calls[c].pc \in {"dispose", "disposeAndReturn"}
    /\ ext' = [ext EXCEPT !.calls[c].pc = IF @ = "dispose" THEN "resolveVitestAPI" ELSE "done",
                          !.created = kill(@, ext.calls[c].disposing)]
    /\ UNCHANGED <<treeVars, watchVars, schedVars, start, ast, client>>

\* resolveVitestAPI has returned the api of a new process, which is assigned
\* to this.api, or it has thrown and the call ends
ApiResolved(c, ok) ==
    /\ c \in 1..Len(ext.calls)
    /\ ext.calls[c].pc = "resolveVitestAPI"
    /\ ext' = IF ok
              THEN [ext EXCEPT !.calls[c].pc = "discoverAllTestFiles",
                               !.created = Append(@, "running"),
                               !.api = Len(ext.created) + 1]
              ELSE [ext EXCEPT !.calls[c].pc = "done"]
    /\ UNCHANGED <<treeVars, watchVars, schedVars, start, ast, client>>

\* the files are discovered and the run profiles are defined: the call returns
ProfilesDefined(c) ==
    /\ c \in 1..Len(ext.calls)
    /\ ext.calls[c].pc = "discoverAllTestFiles"
    /\ ext' = [ext EXCEPT !.calls[c].pc = "done"]
    /\ UNCHANGED <<treeVars, watchVars, schedVars, start, ast, client>>

ExtInit ==
    /\ Rest
    /\ ast = NoAst
    /\ ext = NoExt
    /\ client = NoClient

ExtNext ==
    \/ ActivateExtension
    \/ \E trigger \in Triggers : DefineTestProfiles(trigger)
    \/ \E c \in 1..MaxDefines, found \in BOOLEAN : PackagesResolved(c, found)
    \/ \E c \in 1..MaxDefines : ApiDisposed(c)
    \/ \E c \in 1..MaxDefines, ok \in BOOLEAN : ApiResolved(c, ok)
    \/ \E c \in 1..MaxDefines : ProfilesDefined(c)

SpecExt == ExtInit /\ [][ExtNext]_vars

\* the api instances nothing refers to and dispose() was not called on
Orphans == {a \in 1..Len(ext.created) : a /= ext.api /\ ext.created[a] = "running"}

(***************************************************************************)
(* C38. As claimed: under every interleaving of the calls of               *)
(* defineTestProfiles, every api instance created is the one this.api      *)
(* holds or dispose() was called on it.                                    *)
(***************************************************************************)
C38_Original == Orphans = {}

\* what holds: no instance is left as long as each call begins after the
\* calls before it have returned
NoOrphanInSequence == ~ext.overlapped => Orphans = {}

\* two calls have returned, each has created a process, and the process of
\* the first is running without a reference
OrphanLeftRunning ==
    /\ Len(ext.calls) = 2
    /\ InFlight = {}
    /\ Len(ext.created) = 2
    /\ ext.created = <<"running", "running">>
    /\ ext.api = 2

(***************************************************************************)
(* createClient: the sockets the client has made, the newest being ctx.ws, *)
(* the counter of tries their listeners share, and the timeouts that will  *)
(* call reconnect.  reconnects counts the timeouts set since the counter   *)
(* was last restored by an open.                                           *)
(***************************************************************************)
\* the largest value of the option reconnectTries
MaxTries == 3

\* the largest number of sockets a client makes
MaxSockets == 4

\* new WebSocketConstructor(url) and registerWS()
registerWS(c) == [c EXCEPT !.sockets = Append(@, "connecting")]

\* createClient(url, {autoReconnect, reconnectTries})
createClient(reconnectTries, autoReconnect) ==
    registerWS([NoClient EXCEPT !.reconnectTries = reconnectTries,
                                !.autoReconnect = autoReconnect,
                                !.tries = reconnectTries])

\* reconnect(reset)
reconnect(c, reset) ==
    registerWS(IF reset THEN [c EXCEPT !.tries = c.reconnectTries] ELSE c)

\* the listener of 'open': tries = reconnectTries and the promise resolves
onOpen(c) == [c EXCEPT !.tries = c.reconnectTries, !.reconnects = 0, !.last = "open"]

\* mutant: a reconnect is set up as long as the counter is not negative
onClose_atZero(c) ==
    LET tries == c.tries - 1
    IN  [c EXCEPT !.tries = tries,
                  !.timers = IF c.autoReconnect /\ tries >= 0 THEN @ + 1 ELSE @,
                  !.reconnects = IF c.autoReconnect /\ tries >= 0 THEN @ + 1 ELSE @,
                  !.scheduled = c.autoReconnect /\ tries >= 0,
                  !.last = "close"]

\* the listener of 'close': tries -= 1, and setTimeout(reconnect, interval)
\* if autoReconnect && tries > 0
onClose(c) ==
    LET tries == c.tries - 1
    IN  [c EXCEPT !.tries = tries,
                  !.timers = IF c.autoReconnect /\ tries > 0 THEN @ + 1 ELSE @,
                  !.reconnects = IF c.autoReconnect /\ tries > 0 THEN @ + 1 ELSE @,
                  !.scheduled = c.autoReconnect /\ tries > 0,
                  !.last = "close"]

\* a client was created
ClientInit ==
    /\ Rest
    /\ ast = NoAst
    /\ ext = NoExt
    /\ client \in {createClient(n, auto) : n \in 0..MaxTries, auto \in BOOLEAN}

\* a socket that was connecting is open
SocketOpens(i) ==
    /\ i \in 1..Len(client.sockets)
    /\ client.sockets[i] = "connecting"
    /\ client' = onOpen([client EXCEPT !.sockets[i] = "open"])
    /\ UNCHANGED <<treeVars, watchVars, schedVars, start, ast, ext>>

\* a socket is closed: the connection failed or was lost
SocketCloses(i) ==
    /\ i \in 1..Len(client.sockets)
    /\ client.sockets[i] \in {"connecting", "open"}
    /\ client' = onClose([client EXCEPT !.sockets[i] = "closed"])
    /\ UNCHANGED <<treeVars, watchVars, schedVars, start, ast, ext>>

\* a timeout set by the listener of 'close' expires: reconnect()
TimerFires ==
    /\ client.timers > 0
    /\ Len(client.sockets) < MaxSockets
    /\ client' = [reconnect(client, FALSE) EXCEPT !.timers = @ - 1, !.last = "timeout"]
    /\ UNCHANGED <<treeVars, watchVars, schedVars, start, ast, ext>>

\* watch() with a client: this.vitestState.client.reconnect()
Reconnect ==
    /\ Len(client.sockets) < MaxSockets
    /\ client' = [reconnect(client, FALSE) EXCEPT !.last = "reconnect"]
    /\ UNCHANGED <<treeVars, watchVars, schedVars, start, ast, ext>>

ClientNext ==
    \/ \E i \in 1..MaxSockets : SocketOpens(i)
    \/ \E i \in 1..MaxSockets : SocketCloses(i)
    \/ TimerFires
    \/ Reconnect

SpecClient == ClientInit /\ [][ClientNext]_vars

(***************************************************************************)
(* C39. A close sets up a reconnect exactly when autoReconnect is on and   *)
(* the counter, after it was decreased, is positive; the reconnects set up *)
(* since the last open are at most reconnectTries - 1, and none once the   *)
(* counter is used up; an open restores the counter to reconnectTries.     *)
(***************************************************************************)
C39_ReconnectsWhileTriesRemain ==
    /\ client.last = "close" =>
          client.scheduled <=> (client.autoReconnect /\ client.tries > 0)
    /\ client.reconnects > 0 =>
          /\ client.autoReconnect
          /\ client.reconnects <= client.reconnectTries - 1
    /\ client.tries <= 0 /\ client.last = "close" => ~client.scheduled
    /\ client.last = "open" =>
          /\ client.tries = client.reconnectTries
          /\ client.reconnects = 0

\* the last of the reconnectTries - 1 reconnects has failed: the counter is
\* used up, no timeout is pending and every socket is closed
C39_Witness ==
    /\ client.reconnectTries = MaxTries
    /\ client.autoReconnect
    /\ client.reconnects = MaxTries - 1
    /\ client.tries = 0
    /\ client.last = "close"
    /\ client.timers = 0
    /\ \A i \in 1..Len(client.sockets) : client.sockets[i] = "closed"

(***************************************************************************)
(* C40. After any sequence of trackTests, trackEveryFile, stopTracking and *)
(* markRerun the watcher is in one watch mode at most: when every file is  *)
(* watched, the list of files is empty and there is no pattern of a name.  *)
(***************************************************************************)
C40_OneWatchMode ==
    watcher.watchEveryFile =>
        /\ watcher.files = <<>>
        /\ watcher.testNamePattern = Undefined

\* trackEveryFile() was called after a run with the pattern of trackTests:
\* the pattern is still set in Vitest, and the watcher has none
C40_Witness ==
    /\ rerun.step = "trackEveryFile"
    /\ watcher.watchEveryFile
    /\ watcher.enabled
    /\ ctx.testNamePattern = "adds"

====
